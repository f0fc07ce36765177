------------------------- MODULE JsonTokenerProofs -------------------------
(***************************************************************************)
(* The machine of the parser, for any texts, cut into any chunks, parsed   *)
(* and given up in any order, any depth limit and any spelling of the      *)
(* literals.  Assumed are the named assumptions of JsonTokener.            *)
(*                                                                         *)
(* Of every behaviour: the types are kept, the stack of levels is never    *)
(* overrun, and a call succeeds within a value only if a 0 is met in a     *)
(* comment left open there (LeftOpen).  ShapeInv is the invariant for      *)
(* this: a level that has its value is between two characters that matter, *)
(* so that few states can be the last before the 0.                        *)
(*                                                                         *)
(* Of every behaviour without LeftOpen: a value on its way to the level    *)
(* below is always stored there, and a success leaves nothing behind.      *)
(* WaitInv is the invariant for this: a level is left with a value only if *)
(* one was made, and every level below the top waits for it.               *)
(***************************************************************************)
EXTENDS JsonTokener, TLAPS

Adds  == {"array_add", "object_value_add"}

\* Where blanks are read, and where texts are.
Between    == {"eatws", "comment_start", "comment", "comment_eol", "comment_end"}
TextStates == {"string", "object_field"}

\* States that are left for the saved one.
Passing == Between \cup {"string_escape", "escape_unicode"}

\* States that blanks may come before, or that a string goes back to.
Saved == {"start", "finish", "array", "array_after_sep", "array_sep",
          "object_field_start", "object_field_start_after_sep", "object_field",
          "object_field_end", "object_value", "object_sep", "string"}

\* States from which a level may be finished as it is.
Closing == {"finish", "array", "array_after_sep", "array_sep", "object_sep",
            "object_field_start", "object_field_start_after_sep"}

\* A level that can be finished has a value.
HasValue(level) ==
    level.state \in Closing \/ (level.state \in Passing /\ level.saved \in Closing)
        => level.cur # None

Level(st, sv, v, n) == [state |-> st, saved |-> sv, cur |-> v, name |-> n]

Formed(level) ==
    /\ level = [state |-> level.state, saved |-> level.saved,
                cur |-> level.cur, name |-> level.name]
    /\ level.saved \in Saved

\* A level that is finished reads blanks only; one that reads a text has met
\* its quote, q.
Placed(level, q) ==
    /\ Formed(level)
    /\ level.saved = "finish" => level.state \in Between \cup {"finish"}
    /\ q = NUL => level.state \notin TextStates /\ level.saved \notin TextStates

StackInv ==
    /\ \E L : stack \in Seq(L)
    /\ stack # <<>>
    /\ Len(stack) <= MaxDepth
    /\ \A i \in 1 .. Len(stack) : Placed(stack[i], scan.quote)

PosInv ==
    /\ text \in Seq(STRING)
    /\ pos \in Nat /\ end \in Nat
    /\ pos <= end /\ end <= Len(text) + 2
    /\ phase \in {"idle", "run", "out", "eof"}
    /\ phase = "idle" => obj = None

ScanOK(s) ==
    /\ s = [pb |-> s.pb, st_pos |-> s.st_pos, quote |-> s.quote,
            is_double |-> s.is_double, ucs |-> s.ucs, hi |-> s.hi,
            case_len |-> s.case_len]
    /\ s.st_pos \in Nat
    /\ s.is_double \in BOOLEAN
    /\ s.quote \in Quote \cup {NUL}

\* A 0 met here is no success within a value, or one in an open comment.
Passes == Top.state \in {"comment", "comment_eol"} \/ "finish" \notin {Top.state, Top.saved}

\* Where a call that has met no error may stop.
Exits ==
    /\ phase = "out" /\ err = "success" => Depth = 0
    /\ phase = "eof" /\ err = "success" => Depth = 0 \/ Passes

ShapeInv == StackInv /\ PosInv /\ ScanOK(scan) /\ Exits

\* The levels below the top wait for a value, and the top does if there is one.
WaitInv ==
    /\ \A i \in 1 .. Len(stack) - 1 : stack[i].state \in Adds
    /\ Top.state \in Adds <=> obj # None
    /\ HasValue(Top)
    /\ obj # None => phase = "run" /\ pos < end
    /\ StartsFresh

-----------------------------------------------------------------------------
(* Records.  A field at a time, since a record is changed that way.        *)

LEMMA LevelFields ==
    ASSUME NEW r, Formed(r), NEW st, NEW sv
    PROVE  /\ [r EXCEPT !.state = st] = Level(st, r.saved, r.cur, r.name)
           /\ [r EXCEPT !.state = st, !.saved = sv] = Level(st, sv, r.cur, r.name)
<1> DEFINE r1 == [r EXCEPT !.state = st]
           r2 == [r1 EXCEPT !.saved = sv]
<1>1. r \in [state : {r.state}, saved : {r.saved}, cur : {r.cur}, name : {r.name}]
  BY DEF Formed
<1>2. r1 = Level(st, r.saved, r.cur, r.name)
  BY <1>1 DEF Level
<1>3. [r EXCEPT !.state = st, !.saved = sv] = r2
  OBVIOUS
<1> HIDE DEF r1
<1>4. r2 = Level(st, sv, r.cur, r.name)
  BY <1>2 DEF Level
<1> HIDE DEF r2
<1>5. QED
  BY <1>2, <1>3, <1>4 DEF r1

LEMMA ValueFields ==
    ASSUME NEW r, Formed(r), NEW st, NEW sv, NEW v
    PROVE  [r EXCEPT !.state = st, !.saved = sv, !.cur = v] = Level(st, sv, v, r.name)
<1> DEFINE r2 == [r EXCEPT !.state = st, !.saved = sv]
           r3 == [r2 EXCEPT !.cur = v]
<1>1. r2 = Level(st, sv, r.cur, r.name)
  BY LevelFields
<1>2. [r EXCEPT !.state = st, !.saved = sv, !.cur = v] = r3
  OBVIOUS
<1> HIDE DEF r2
<1>3. r3 = Level(st, sv, v, r.name)
  BY <1>1 DEF Level
<1> HIDE DEF r3
<1>4. QED
  BY <1>2, <1>3

Named(r, st, sv, n) == [r EXCEPT !.state = st, !.saved = sv, !.name = n]

LEMMA NameFields ==
    ASSUME NEW r, Formed(r), NEW st, NEW sv, NEW n
    PROVE  Named(r, st, sv, n) = Level(st, sv, r.cur, n)
<1> DEFINE r2 == [r EXCEPT !.state = st, !.saved = sv]
           r3 == [r2 EXCEPT !.name = n]
<1>1. r2 = Level(st, sv, r.cur, r.name)
  BY LevelFields
<1>2. Named(r, st, sv, n) = r3
  BY DEF Named
<1> HIDE DEF r2
<1>3. r3 = Level(st, sv, r.cur, n)
  BY <1>1 DEF Level
<1> HIDE DEF r3
<1>4. QED
  BY <1>2, <1>3

Filled(r, st, sv, v, n) == [r EXCEPT !.state = st, !.saved = sv, !.cur = v, !.name = n]

LEMMA AllFields ==
    ASSUME NEW r, Formed(r), NEW st, NEW sv, NEW v, NEW n
    PROVE  Filled(r, st, sv, v, n) = Level(st, sv, v, n)
<1> DEFINE r3 == [r EXCEPT !.state = st, !.saved = sv, !.cur = v]
           r4 == [r3 EXCEPT !.name = n]
<1>1. r3 = Level(st, sv, v, r.name)
  BY ValueFields
<1>2. Filled(r, st, sv, v, n) = r4
  BY DEF Filled
<1> HIDE DEF r3
<1>3. r4 = Level(st, sv, v, n)
  BY <1>1 DEF Level
<1> HIDE DEF r4
<1>4. QED
  BY <1>2, <1>3

\* A record of scan that is well formed, as far as the quote is concerned one
\* that may follow the present one.
ScanStep(s) == ScanOK(s) /\ (s.quote = NUL => scan.quote = NUL)

\* What is known of scan outlives a change of any field.
LEMMA ScanFields ==
    /\ \A s, v : ScanStep(s) => ScanStep([s EXCEPT !.pb = v])
    /\ \A s, v : ScanStep(s) => ScanStep([s EXCEPT !.ucs = v])
    /\ \A s, v : ScanStep(s) => ScanStep([s EXCEPT !.hi = v])
    /\ \A s, v : ScanStep(s) => ScanStep([s EXCEPT !.case_len = v])
    /\ \A s, v : ScanStep(s) /\ v \in Nat => ScanStep([s EXCEPT !.st_pos = v])
    /\ \A s, v : ScanStep(s) /\ v \in BOOLEAN => ScanStep([s EXCEPT !.is_double = v])
    /\ \A s, v : ScanStep(s) /\ v \in Quote => /\ ScanStep([s EXCEPT !.quote = v])
                                             /\ [s EXCEPT !.quote = v].quote # NUL
<1> DEFINE Typed(s) ==
        s \in [pb : {s.pb}, st_pos : {s.st_pos}, quote : {s.quote},
               is_double : {s.is_double}, ucs : {s.ucs}, hi : {s.hi},
               case_len : {s.case_len}]
<1>1. \A s : ScanStep(s) => Typed(s)
  BY DEF ScanStep, ScanOK
<1>2. ASSUME NEW s, NEW v, ScanStep(s)
      PROVE  ScanStep([s EXCEPT !.pb = v])
  BY <1>1, <1>2 DEF ScanStep, ScanOK
<1>3. ASSUME NEW s, NEW v, ScanStep(s)
      PROVE  ScanStep([s EXCEPT !.ucs = v])
  BY <1>1, <1>3 DEF ScanStep, ScanOK
<1>4. ASSUME NEW s, NEW v, ScanStep(s)
      PROVE  ScanStep([s EXCEPT !.hi = v])
  BY <1>1, <1>4 DEF ScanStep, ScanOK
<1>5. ASSUME NEW s, NEW v, ScanStep(s)
      PROVE  ScanStep([s EXCEPT !.case_len = v])
  BY <1>1, <1>5 DEF ScanStep, ScanOK
<1>6. ASSUME NEW s, NEW v \in Nat, ScanStep(s)
      PROVE  ScanStep([s EXCEPT !.st_pos = v])
  BY <1>1, <1>6 DEF ScanStep, ScanOK
<1>7. ASSUME NEW s, NEW v \in BOOLEAN, ScanStep(s)
      PROVE  ScanStep([s EXCEPT !.is_double = v])
  BY <1>1, <1>7 DEF ScanStep, ScanOK
<1>8. ASSUME NEW s, NEW v \in Quote, ScanStep(s)
      PROVE  ScanStep([s EXCEPT !.quote = v]) /\ [s EXCEPT !.quote = v].quote # NUL
  <2> DEFINE r == [s EXCEPT !.quote = v]
  <2>1. v # NUL
    BY DEF Quote, NUL
  <2>2. ScanOK(r) /\ r.quote = v
    BY <1>1, <1>8 DEF ScanStep, ScanOK
  <2> HIDE DEF r
  <2>3. QED
    BY <2>1, <2>2 DEF ScanStep, r
<1> HIDE DEF Typed
<1>9. QED
  BY <1>2, <1>3, <1>4, <1>5, <1>6, <1>7, <1>8

LEMMA ScanNow == ShapeInv => ScanStep(scan)
BY DEF ShapeInv, ScanStep


-----------------------------------------------------------------------------
(* The stack.                                                              *)

\* What a case of the switch does to the stack and to the value under way, in
\* four ways.
Fits(level) == WaitInv => obj' = None /\ level.state \notin Adds /\ HasValue(level)

Stays   == UNCHANGED <<stack, obj>>
Changes == \E level : Placed(level, scan'.quote) /\ Fits(level) /\ Set(level)
Opens   == /\ Len(stack) < MaxDepth
           /\ UNCHANGED obj
           /\ WaitInv => obj = None
           /\ Top.saved # "finish"
           /\ \E s \in Adds :
                 stack' = Append([stack EXCEPT ![Len(stack)] = [Top EXCEPT !.state = s]],
                                 Fresh)
Closes  == Len(stack) > 1 /\ stack' = Front(stack) /\ obj' = Top.cur /\ Top.state = "finish"

LEMMA FreshIsPlaced ==
    /\ \A q : Placed(Fresh, q)
    /\ Fresh.state \notin Adds /\ HasValue(Fresh)
BY DEF Placed, Formed, HasValue, Fresh, Saved, Adds, Closing, Passing, Between, TextStates

\* The top level is one of the levels.
LEMMA TopIsPlaced ==
    ASSUME StackInv
    PROVE  /\ Len(stack) \in Nat \ {0}
           /\ Formed(Top)
           /\ Placed(Top, scan.quote)
<1>1. PICK L : stack \in Seq(L)
  BY DEF StackInv
<1>2. Len(stack) \in Nat \ {0}
  BY <1>1 DEF StackInv
<1>3. Placed(Top, scan.quote)
  BY <1>2 DEF StackInv, Top
<1>4. QED
  BY <1>2, <1>3 DEF Placed

\* A level stays placed when a quote is read.
LEMMA PlacedLater ==
    ASSUME NEW level, Placed(level, scan.quote), ScanStep(scan')
    PROVE  Placed(level, scan'.quote)
BY DEF Placed, ScanStep

\* A level put in place of the top one.
LEMMA ChangeKeeps ==
    ASSUME StackInv, ScanStep(scan'), NEW level, Placed(level, scan'.quote), Set(level)
    PROVE  /\ StackInv'
           /\ Len(stack') = Len(stack) /\ Top' = level
           /\ \A i \in 1 .. Len(stack) - 1 : stack'[i] = stack[i]
<1>1. PICK L : stack \in Seq(L)
  BY DEF StackInv
<1>2. Len(stack) \in Nat \ {0}
  BY TopIsPlaced
<1>3. /\ stack' \in Seq(L \cup {level})
      /\ Len(stack') = Len(stack)
      /\ stack'[Len(stack)] = level
      /\ \A i \in 1 .. Len(stack) - 1 : stack'[i] = stack[i]
  BY <1>1, <1>2 DEF Set
<1>4. stack' # <<>>
  BY <1>2, <1>3
<1>5. Top' = level
  BY <1>3 DEF Top
<1>6. \A i \in 1 .. Len(stack') : Placed(stack'[i], scan'.quote)
  <2>1. SUFFICES ASSUME NEW i \in 1 .. Len(stack)
                 PROVE  Placed(stack'[i], scan'.quote)
    BY <1>3
  <2>2. CASE i = Len(stack)
    BY <1>3, <2>2
  <2>3. CASE i # Len(stack)
    <3>1. Placed(stack[i], scan.quote) /\ stack'[i] = stack[i]
      BY <1>2, <1>3, <2>3 DEF StackInv
    <3>2. QED
      BY <3>1, PlacedLater
  <2>4. QED
    BY <2>2, <2>3
<1>7. Len(stack') <= MaxDepth
  BY <1>3 DEF StackInv
<1>8. QED
  BY <1>3, <1>4, <1>5, <1>6, <1>7 DEF StackInv

\* A level opened above the one that will take its value.
LEMMA OpenKeeps ==
    ASSUME StackInv, ScanStep(scan'), Opens
    PROVE  /\ StackInv'
           /\ Len(stack') = Len(stack) + 1 /\ Top' = Fresh
           /\ \A i \in 1 .. Len(stack) - 1 : stack'[i] = stack[i]
           /\ stack'[Len(stack)].state \in Adds
<1>1. PICK L : stack \in Seq(L)
  BY DEF StackInv
<1>2. Len(stack) \in Nat \ {0} /\ Formed(Top) /\ Placed(Top, scan.quote)
  BY TopIsPlaced
<1>3. PICK s \in Adds :
         stack' = Append([stack EXCEPT ![Len(stack)] = [Top EXCEPT !.state = s]], Fresh)
  BY DEF Opens
<1> DEFINE waits == [Top EXCEPT !.state = s]
           below == [stack EXCEPT ![Len(stack)] = waits]
<1>4. Placed(waits, scan.quote) /\ waits.state = s
  <2>1. waits = Level(s, Top.saved, Top.cur, Top.name)
    BY <1>2, LevelFields
  <2>2. Top.saved # "finish"
    BY DEF Opens
  <2> HIDE DEF waits
  <2>3. QED
    BY <1>2, <1>3, <2>1, <2>2 DEF Level, Placed, Formed, Adds, TextStates
<1>5. /\ below \in Seq(L \cup {waits})
      /\ Len(below) = Len(stack)
      /\ below[Len(stack)] = waits
      /\ \A i \in 1 .. Len(stack) - 1 : below[i] = stack[i]
  BY <1>1, <1>2
<1>6. \A i \in 1 .. Len(stack) : Placed(below[i], scan'.quote)
  <2>1. SUFFICES ASSUME NEW i \in 1 .. Len(stack)
                 PROVE  Placed(below[i], scan.quote)
    BY PlacedLater
  <2>2. CASE i = Len(stack)
    BY <1>4, <1>5, <2>2
  <2>3. CASE i # Len(stack)
    BY <1>2, <1>5, <2>3 DEF StackInv
  <2>4. QED
    BY <2>2, <2>3
<1>7. stack' = Append(below, Fresh)
  BY <1>3
<1> HIDE DEF waits, below
<1>8. /\ stack' \in Seq(L \cup {waits} \cup {Fresh})
      /\ Len(stack') = Len(stack) + 1
      /\ stack'[Len(stack) + 1] = Fresh
      /\ \A i \in 1 .. Len(stack) : stack'[i] = below[i]
  BY <1>2, <1>5, <1>7
<1>9. Top' = Fresh /\ stack' # <<>>
  BY <1>2, <1>8 DEF Top
<1>10. \A i \in 1 .. Len(stack') : Placed(stack'[i], scan'.quote)
  BY <1>2, <1>6, <1>8, FreshIsPlaced
<1>11. Len(stack') <= MaxDepth
  BY <1>2, <1>8, DepthAssumption DEF Opens
<1>12. StackInv'
  BY <1>8, <1>9, <1>10, <1>11 DEF StackInv
<1>13. /\ \A i \in 1 .. Len(stack) - 1 : stack'[i] = stack[i]
       /\ stack'[Len(stack)].state \in Adds
  BY <1>2, <1>3, <1>4, <1>5, <1>8
<1>14. QED
  BY <1>8, <1>9, <1>12, <1>13

\* A level left.
LEMMA CloseKeeps ==
    ASSUME StackInv, ScanStep(scan'), Closes
    PROVE  /\ StackInv'
           /\ Len(stack') = Len(stack) - 1 /\ Top' = stack[Len(stack) - 1]
           /\ \A i \in 1 .. Len(stack) - 1 : stack'[i] = stack[i]
<1>1. PICK L : stack \in Seq(L)
  BY DEF StackInv
<1>2. Len(stack) \in Nat \ {0} /\ Len(stack) > 1
  BY TopIsPlaced DEF Closes
<1>3. /\ stack' \in Seq(L)
      /\ Len(stack') = Len(stack) - 1
      /\ \A i \in 1 .. Len(stack) - 1 : stack'[i] = stack[i]
  BY <1>1, <1>2 DEF Closes, Front
<1>4. Top' = stack[Len(stack) - 1] /\ stack' # <<>>
  BY <1>2, <1>3 DEF Top
<1>5. Len(stack') <= MaxDepth
  BY <1>2, <1>3, DepthAssumption DEF StackInv
<1>6. \A i \in 1 .. Len(stack') : Placed(stack'[i], scan'.quote)
  <2>1. \A i \in 1 .. Len(stack') : Placed(stack'[i], scan.quote)
    BY <1>2, <1>3 DEF StackInv
  <2>2. QED
    BY <2>1, PlacedLater
<1>7. QED
  BY <1>3, <1>4, <1>5, <1>6 DEF StackInv

\* Levels as json_tokener_reset_level makes them.
LEMMA FreshLevels ==
    ASSUME NEW n \in Nat \ {0}, n <= MaxDepth, stack' = [i \in 1 .. n |-> Fresh]
    PROVE  StackInv' /\ Len(stack') = n /\ Top' = Fresh
<1>1. /\ stack' \in Seq({Fresh}) /\ Len(stack') = n /\ stack' # <<>>
      /\ \A i \in 1 .. n : stack'[i] = Fresh
  BY DEF Fresh
<1>2. Top' = Fresh
  BY <1>1 DEF Top
<1>3. \A i \in 1 .. Len(stack') : Placed(stack'[i], scan'.quote)
  BY <1>1, FreshIsPlaced
<1>4. QED
  BY <1>1, <1>2, <1>3 DEF StackInv

-----------------------------------------------------------------------------
(* What each case of the switch does to the stack.                         *)

\* A step that gives the top level another state.
LEMMA GotoChanges ==
    ASSUME StackInv, ScanStep(scan'), NEW s, Goto(s), s \notin Adds,
           Top.saved = "finish" => s \in Between \cup {"finish"},
           s \in TextStates => scan'.quote # NUL,
           WaitInv => obj' = None,
           WaitInv => (s \in Closing \/ (s \in Passing /\ Top.saved \in Closing)
                          => Top.cur # None)
    PROVE  Changes /\ Top'.state = s /\ Top'.saved = Top.saved
<1> DEFINE level == Level(s, Top.saved, Top.cur, Top.name)
<1>1. Formed(Top) /\ Placed(Top, scan.quote)
  BY TopIsPlaced
<1>2. Placed(level, scan'.quote)
  BY <1>1 DEF Level, Placed, Formed, ScanStep
<1>3. Fits(level)
  BY DEF Level, Fits, HasValue
<1>4. Set(level)
  <2>1. [Top EXCEPT !.state = s] = level
    BY <1>1, LevelFields
  <2> HIDE DEF level
  <2>2. QED
    BY <2>1 DEF Goto
<1>5. Top' = level
  <2> HIDE DEF level
  <2>1. QED
    BY <1>2, <1>4, ChangeKeeps
<1>6. level.state = s /\ level.saved = Top.saved
  BY DEF Level
<1> HIDE DEF level
<1>7. QED
  BY <1>2, <1>3, <1>4, <1>5, <1>6 DEF Changes

\* ... the state it has saved, that it left;
LEMMA SavedChanges ==
    ASSUME StackInv, ScanStep(scan'), Goto(Top.saved), Top.state \in Passing,
           WaitInv => obj' = None
    PROVE  Changes /\ Top'.state = Top.saved /\ Top'.saved = Top.saved
<1>1. Top.saved \in Saved /\ Placed(Top, scan.quote)
  BY TopIsPlaced DEF Formed
<1>2. Top.saved \notin Adds /\ Top.saved \notin Passing
  BY <1>1 DEF Saved, Adds, Passing, Between
<1>3. Top.saved \in TextStates => scan'.quote # NUL
  BY <1>1 DEF Placed, ScanStep
<1>4. WaitInv => (Top.saved \in Closing => Top.cur # None)
  BY DEF WaitInv, HasValue
<1>5. QED
  BY <1>2, <1>3, <1>4, GotoChanges

\* ... any state to come after blanks, a value and a name, if a state to finish
\* from comes with a value;
LEMMA BlankChanges ==
    ASSUME NEW s \in Saved \ TextStates, NEW v, NEW n,
           WaitInv => obj' = None,
           WaitInv => (s \in Closing => v # None),
           Set(Level("eatws", s, v, n))
    PROVE  Changes
<1> DEFINE level == Level("eatws", s, v, n)
<1>1. Placed(level, scan'.quote)
  BY DEF Level, Placed, Formed, Between, TextStates
<1>2. "eatws" \notin Adds /\ "eatws" \notin Closing
  BY DEF Adds, Closing
<1>3. Fits(level)
  BY <1>2 DEF Level, Fits, HasValue
<1> HIDE DEF level
<1>4. QED
  BY <1>1, <1>3 DEF Changes, level

\* ... only the state to come,
LEMMA AwaitChanges ==
    ASSUME StackInv, NEW s \in Saved \ TextStates, Await(s),
           WaitInv => obj' = None,
           WaitInv => (s \in Closing => Top.cur # None)
    PROVE  Changes
<1>1. Formed(Top)
  BY TopIsPlaced
<1>2. [Top EXCEPT !.state = "eatws", !.saved = s]
         = Level("eatws", s, Top.cur, Top.name)
  BY <1>1, LevelFields
<1>3. Set(Level("eatws", s, Top.cur, Top.name))
  BY <1>2 DEF Await
<1>4. QED
  BY <1>3, BlankChanges

\* ... a value with it,
LEMMA ValueChanges ==
    ASSUME StackInv, NEW s \in Saved \ TextStates, NEW v, v # None,
           WaitInv => obj' = None,
           Set([Top EXCEPT !.state = "eatws", !.saved = s, !.cur = v])
    PROVE  Changes
<1>1. Formed(Top)
  BY TopIsPlaced
<1>2. [Top EXCEPT !.state = "eatws", !.saved = s, !.cur = v]
         = Level("eatws", s, v, Top.name)
  BY <1>1, ValueFields
<1>3. QED
  BY <1>2, BlankChanges

\* ... or the name of a field.
LEMMA NameChanges ==
    ASSUME StackInv, NEW s \in Saved \ (Closing \cup TextStates), NEW n,
           WaitInv => obj' = None,
           Set([Top EXCEPT !.state = "eatws", !.saved = s, !.name = n])
    PROVE  Changes
<1>1. Formed(Top)
  BY TopIsPlaced
<1>2. Named(Top, "eatws", s, n) = Level("eatws", s, Top.cur, n)
  BY <1>1, NameFields
<1>3. Set(Named(Top, "eatws", s, n))
  BY DEF Named
<1>4. QED
  BY <1>2, <1>3, BlankChanges

-----------------------------------------------------------------------------
(* Each case of the switch, one lemma per case: what it does to the stack  *)
(* and the value, to the position, and to scan.                            *)

\* A step on a character keeps the position in the chunk.
Moves ==
    /\ UNCHANGED <<text, end>>
    /\ pos' \in Nat /\ pos' <= end
    /\ phase' \in {"run", "out", "eof"}
    /\ WaitInv => (obj' # None => phase' = "run" /\ pos' < end)

Steps ==
    /\ Stays \/ Changes \/ Opens \/ Closes
    /\ Moves
    /\ ScanStep(scan')
    /\ Exits'

\* The ways to go on after a character, but for the value of the text.
GoesOn ==
    \/ Redo
    \/ Advance /\ (c # NUL \/ Passes')
    \/ Leave /\ UNCHANGED pos /\ err' # "success"

\* None leaves the chunk.
LEMMA OnTheWay ==
    ASSUME PosInv, NEW s, At(s), Keep, Advance \/ Redo \/ (Leave /\ UNCHANGED pos),
           WaitInv => obj' = None
    PROVE  Moves
BY DEF PosInv, At, Keep, Advance, Redo, Leave, Moves

LEMMA WayOut == ASSUME GoesOn, NEW s, At(s) PROVE Exits'
BY DEF GoesOn, At, Advance, Redo, Leave, Exits

\* Where a value is finished no 0 ends a text but in a comment.
LEMMA StaysPassing ==
    ASSUME StackInv, NEW s, At(s), s \notin Between \cup {"finish"}, UNCHANGED stack
    PROVE  Top.saved # "finish" /\ Passes'
<1>1. Top.saved # "finish" /\ Top.state # "finish"
  BY TopIsPlaced DEF At, Placed
<1>2. Top' = Top
  BY DEF Top
<1>3. QED
  BY <1>1, <1>2 DEF Passes

\* No value is under way but in two states.
LEMMA CaseObj ==
    ASSUME NEW s, At(s), s \notin Adds, UNCHANGED obj
    PROVE  WaitInv => obj = None /\ obj' = None
BY DEF WaitInv, At

\* Most cases leave the value under way alone, of which there is none.
LEMMA CaseSteps ==
    ASSUME ShapeInv, NEW s, At(s), s \notin Adds, Keep, UNCHANGED obj, GoesOn,
           UNCHANGED stack \/ Changes \/ Opens, ScanStep(scan')
    PROVE  Steps
<1>1. WaitInv => obj' = None
  BY CaseObj
<1>2. Moves
  BY <1>1, OnTheWay DEF ShapeInv, GoesOn
<1>3. Exits'
  BY WayOut
<1>4. QED
  BY <1>2, <1>3 DEF Steps, Stays

LEMMA EndOfChunkSteps == ASSUME ShapeInv, EndOfChunk PROVE Steps
<1>1. Stays
  BY DEF EndOfChunk, Stays
<1>2. Moves
  <2>1. WaitInv => obj' = None
    BY DEF WaitInv, ShapeInv, PosInv, EndOfChunk
  <2>2. QED
    BY <2>1 DEF ShapeInv, PosInv, EndOfChunk, Keep, Moves
<1>3. ScanStep(scan')
  <2>1. ScanStep(scan)
    BY ScanNow
  <2>2. CASE scan' = scan
    BY <2>1, <2>2
  <2>3. CASE scan' = [scan EXCEPT !.pb = Append(@, Repl), !.hi = <<>>]
    BY <2>1, <2>3, ScanFields
  <2>4. QED
    BY <2>2, <2>3 DEF EndOfChunk
<1>4. Exits'
  <2>1. phase' = "out" /\ (err' = "success" => Depth = 0) /\ Depth' = Depth
    BY DEF EndOfChunk, Depth
  <2>2. QED
    BY <2>1 DEF Exits
<1>5. QED
  BY <1>1, <1>2, <1>3, <1>4 DEF Steps

LEMMA EatWsSteps == ASSUME ShapeInv, EatWs PROVE Steps
<1>1. At("eatws") /\ Keep /\ UNCHANGED obj
  BY DEF EatWs, Quiet
<1>2. "eatws" \notin Adds
  BY DEF Adds
<1>3. GoesOn
  BY DEF EatWs, GoesOn, Space, NUL
<1>4. ScanStep(scan')
  <2>1. scan' = scan \/ scan' = [scan EXCEPT !.pb = <<<<c>>>>]
    BY DEF EatWs, Quiet
  <2>2. QED
    BY <2>1, ScanNow, ScanFields
<1>5. UNCHANGED stack \/ Changes
  <2>1. ASSUME Goto("comment_start")
        PROVE  Changes
    <3>1. /\ "comment_start" \notin Adds \cup Closing \cup TextStates
          /\ "comment_start" \in Between
      BY DEF Adds, Closing, TextStates, Between
    <3>2. WaitInv => (Top.saved \in Closing => Top.cur # None)
      BY <1>1 DEF WaitInv, HasValue, At, Passing, Between
    <3>3. WaitInv => obj' = None
      BY <1>1, <1>2, CaseObj
    <3>4. QED
      BY <1>4, <2>1, <3>1, <3>2, <3>3, GotoChanges DEF ShapeInv
  <2>2. ASSUME Goto(Top.saved)
        PROVE  Changes
    <3>1. WaitInv => obj' = None
      BY <1>1, <1>2, CaseObj
    <3>2. Top.state \in Passing
      BY <1>1 DEF At, Passing, Between
    <3>3. QED
      BY <1>4, <2>2, <3>1, <3>2, SavedChanges DEF ShapeInv
  <2>3. QED
    BY <2>1, <2>2 DEF EatWs
<1>6. QED
  BY <1>1, <1>2, <1>3, <1>4, <1>5, CaseSteps

LEMMA StartSteps == ASSUME ShapeInv, Start PROVE Steps
<1>1. At("start") /\ Keep /\ UNCHANGED obj
  BY DEF Start
<1>2. "start" \notin Adds /\ "start" \notin Between \cup {"finish"}
  BY DEF Adds, Between
<1>3. GoesOn
  <2>1. /\ NUL # "{" /\ NUL # "["
        /\ NUL \notin Quote
        /\ "unexpected" # "success"
    BY Zenon DEF Quote, NUL
  <2>2. Redo \/ (Advance /\ c # NUL) \/ Fail("unexpected")
    BY <2>1, Zenon DEF Start
  <2>3. QED
    BY <2>1, <2>2, Zenon DEF GoesOn, Fail
<1>4. ASSUME c \in Quote, scan' = [scan EXCEPT !.pb = <<>>, !.quote = c]
      PROVE  ScanStep(scan') /\ scan'.quote # NUL
  <2> DEFINE s1 == [scan EXCEPT !.pb = <<>>]
  <2>1. ScanStep(s1)
    BY ScanNow, ScanFields
  <2>2. scan' = [s1 EXCEPT !.quote = c]
    BY <1>4
  <2> HIDE DEF s1
  <2>3. ScanStep([s1 EXCEPT !.quote = c]) /\ [s1 EXCEPT !.quote = c].quote # NUL
    BY <1>4, <2>1, ScanFields, Zenon
  <2>4. QED
    BY <2>2, <2>3, Zenon
<1>5. ScanStep(scan')
  <2>1. ScanStep(scan)
    BY ScanNow
  <2>2. CASE scan' = [scan EXCEPT !.pb = <<>>, !.st_pos = 0]
    BY <2>1, <2>2, ScanFields
  <2>3. CASE c \in Quote /\ scan' = [scan EXCEPT !.pb = <<>>, !.quote = c]
    BY <1>4, <2>3
  <2>4. CASE scan' = [scan EXCEPT !.pb = <<>>, !.is_double = FALSE, !.case_len = 0]
    BY <2>1, <2>4, ScanFields
  <2>5. CASE UNCHANGED scan
    BY <2>1, <2>5
  <2>6. QED
    BY <2>2, <2>3, <2>4, <2>5 DEF Start
<1>6. UNCHANGED stack \/ Changes
  <2>1. WaitInv => obj' = None
    BY <1>1, <1>2, CaseObj
  <2>2. Top.saved # "finish"
    BY <1>1, <1>2, TopIsPlaced DEF ShapeInv, At, Placed
  <2>3. ASSUME NEW s \in {"inf", "null", "boolean", "string", "number"}, Goto(s),
               s = "string" => scan'.quote # NUL
        PROVE  Changes
    <3>1. s \notin Adds \cup Closing \cup Passing
      BY DEF Adds, Closing, Passing, Between
    <3>2. s \in TextStates => s = "string"
      BY DEF TextStates
    <3>3. QED
      BY <1>5, <2>1, <2>2, <2>3, <3>1, <3>2, GotoChanges DEF ShapeInv
  <2>4. ASSUME NEW s \in {"object_field_start", "array"}, NEW v \in {"object", "array"},
               Set([Top EXCEPT !.state = "eatws", !.saved = s, !.cur = <<v, <<>>>>])
        PROVE  Changes
    <3>1. <<v, <<>>>> # None
      BY DEF None
    <3>2. s \in Saved \ TextStates
      BY DEF Saved, TextStates
    <3>3. QED
      BY <2>1, <2>4, <3>1, <3>2, ValueChanges DEF ShapeInv
  <2>5. \A x \in DOMAIN LiteralState : LiteralState[x] \in {"inf", "null", "boolean"}
    BY DEF LiteralState
  <2>6. CASE c \in DOMAIN LiteralState /\ Goto(LiteralState[c])
    BY <2>3, <2>5, <2>6
  <2>7. CASE /\ c \in Quote /\ Goto("string")
             /\ scan' = [scan EXCEPT !.pb = <<>>, !.quote = c]
    BY <1>4, <2>3, <2>7
  <2>8. CASE Goto("number")
    BY <2>3, <2>8
  <2>9. QED
    BY <2>4, <2>6, <2>7, <2>8 DEF Start, Fail
<1>7. QED
  BY <1>1, <1>2, <1>3, <1>5, <1>6, CaseSteps

LEMMA FinishSteps == ASSUME ShapeInv, Finish PROVE Steps
<1>1. At("finish") /\ Keep /\ UNCHANGED <<pos, scan, err>>
  BY DEF Finish
<1>2. "finish" \notin Adds
  BY DEF Adds
<1>3. ScanStep(scan')
  BY <1>1, ScanNow
<1>4. CASE Depth = 0
  <2>1. Stays /\ Leave
    BY <1>4 DEF Finish, Stays
  <2>2. WaitInv => obj' = None
    BY <1>1, <1>2, <2>1, CaseObj DEF Stays
  <2>3. Moves
    BY <1>1, <2>1, <2>2, OnTheWay DEF ShapeInv
  <2>4. Depth' = 0
    BY <1>4, <2>1 DEF Stays, Depth
  <2>5. QED
    BY <1>3, <2>1, <2>3, <2>4 DEF Steps, Exits
<1>5. CASE Depth # 0
  <2>1. Len(stack) \in Nat \ {0}
    BY TopIsPlaced DEF ShapeInv
  <2>2. obj' = Top.cur /\ stack' = Front(stack) /\ UNCHANGED phase
    BY <1>5 DEF Finish
  <2>3. Len(stack) > 1
    BY <1>5, <2>1 DEF Depth
  <2>4. Closes
    BY <1>1, <2>2, <2>3 DEF Closes, At
  <2>5. Moves
    BY <1>1, <2>2 DEF ShapeInv, PosInv, Moves, Keep, At
  <2>6. Exits'
    BY <1>1, <2>2 DEF Exits, At
  <2>7. QED
    BY <1>3, <2>4, <2>5, <2>6 DEF Steps
<1>6. QED
  BY <1>4, <1>5

LEMMA LiteralSteps ==
    ASSUME ShapeInv, NEW s \in {"inf", "null", "boolean"}, NEW words, NEW buf,
           NEW value, NEW error, error # "success",
           \A k \in words : value[k] # None,
           Literal(s, words, buf, value, error)
    PROVE  Steps
<1> DEFINE hits == Candidates(words, buf)
           done == {k \in hits : scan.st_pos = Len(Word[k])}
<1>1. At(s) /\ Keep /\ UNCHANGED obj
  BY DEF Literal
<1>2. s \notin Adds /\ s \notin Between \cup {"finish"}
  BY DEF Adds, Between
<1>3. ScanStep(scan) /\ ScanStep([scan EXCEPT !.pb = Append(@, <<c>>)])
  BY ScanNow, ScanFields
<1>4. CASE /\ done # {}
           /\ \E k \in done : Made(value[k])
           /\ Redo /\ UNCHANGED err
           /\ scan' = [scan EXCEPT !.pb = Append(@, <<c>>)]
  <2>1. PICK k \in words : Made(value[k])
    BY <1>4 DEF Candidates
  <2>2. "finish" \in Saved \ TextStates /\ (WaitInv => obj' = None)
    BY <1>1, <1>2, CaseObj DEF Saved, TextStates
  <2>3. Changes
    BY <2>1, <2>2, ValueChanges DEF Made, ShapeInv
  <2>4. QED
    BY <1>1, <1>2, <1>3, <1>4, <2>3, CaseSteps DEF GoesOn
<1>5. CASE Fail(error) /\ scan' = [scan EXCEPT !.pb = Append(@, <<c>>)]
  BY <1>1, <1>2, <1>3, <1>5, CaseSteps DEF Fail, GoesOn
<1>6. CASE /\ Advance /\ UNCHANGED <<stack, err>>
           /\ scan' = [scan EXCEPT !.pb = Append(@, <<c>>), !.st_pos = @ + 1]
  <2>1. scan.st_pos + 1 \in Nat
    BY <1>3 DEF ScanStep, ScanOK
  <2>2. ScanStep([[scan EXCEPT !.pb = Append(@, <<c>>)] EXCEPT !.st_pos = scan.st_pos + 1])
    BY <1>3, <2>1, ScanFields
  <2>3. ScanStep(scan')
    BY <1>6, <2>2
  <2>4. Passes'
    BY <1>1, <1>2, <1>6, StaysPassing DEF ShapeInv
  <2>5. QED
    BY <1>1, <1>2, <1>6, <2>3, <2>4, CaseSteps DEF GoesOn
<1>7. QED
  BY <1>4, <1>5, <1>6 DEF Literal

LEMMA InfSteps == ASSUME ShapeInv, Inf PROVE Steps
<1> DEFINE neg == Append(scan.pb, <<c>>)[1] = <<"-">>
           value == [inf |-> <<IF neg THEN "-inf" ELSE "inf">>]
<1>1. \A k \in {"inf"} : value[k] # None
  BY DEF None
<1>2. \E buf : Literal("inf", {"inf"}, buf, value, "unexpected")
  BY DEF Inf
<1> HIDE DEF value
<1>3. QED
  BY <1>1, <1>2, LiteralSteps

LEMMA NullSteps == ASSUME ShapeInv, Null PROVE Steps
<1> DEFINE value == [null |-> <<"null">>, nan |-> <<"nan">>]
<1>1. \A k \in {"null", "nan"} : value[k] # None
  BY DEF None
<1>2. Literal("null", {"null", "nan"}, Append(scan.pb, <<c>>), value, "null")
  BY DEF Null
<1> HIDE DEF value
<1>3. QED
  BY <1>1, <1>2, LiteralSteps

LEMMA BooleanSteps == ASSUME ShapeInv, Boolean PROVE Steps
<1> DEFINE value == [true |-> <<"true">>, false |-> <<"false">>]
<1>1. \A k \in {"true", "false"} : value[k] # None
  BY DEF None
<1>2. Literal("boolean", {"true", "false"}, Append(scan.pb, <<c>>), value, "boolean")
  BY DEF Boolean
<1> HIDE DEF value
<1>3. QED
  BY <1>1, <1>2, LiteralSteps

LEMMA CommentSteps == ASSUME ShapeInv, Comment PROVE Steps
<1>1. PICK s \in Between \ {"eatws"} :
         /\ At(s) /\ Keep /\ UNCHANGED obj
         /\ scan' = [scan EXCEPT !.pb = Append(@, <<c>>)]
         /\ \/ \E x \in Between :
                  /\ Goto(x) /\ Advance
                  /\ c # NUL \/ x \in {"comment", "comment_eol"}
            \/ Fail("comment")
  BY SMTT(30) DEF Comment, Between, NUL
<1>2. s \notin Adds
  BY DEF Adds, Between
<1>3. ScanStep(scan')
  BY <1>1, ScanNow, ScanFields
<1>4. CASE Fail("comment")
  BY <1>1, <1>2, <1>3, <1>4, CaseSteps DEF Fail, GoesOn
<1>5. ASSUME NEW x \in Between, Goto(x), Advance,
             c # NUL \/ x \in {"comment", "comment_eol"}
      PROVE  Steps
  <2>1. x \notin Adds \cup Closing \cup TextStates
    BY DEF Between, Adds, Closing, TextStates
  <2>2. WaitInv => obj' = None
    BY <1>1, <1>2, CaseObj
  <2>3. WaitInv => (Top.saved \in Closing => Top.cur # None)
    BY <1>1 DEF WaitInv, HasValue, At, Passing
  <2>4. Changes /\ Top'.state = x
    BY <1>3, <1>5, <2>1, <2>2, <2>3, GotoChanges DEF ShapeInv
  <2>5. GoesOn
    BY <1>5, <2>4 DEF GoesOn, Passes
  <2>6. QED
    BY <1>1, <1>2, <1>3, <2>4, <2>5, CaseSteps
<1>6. QED
  BY <1>1, <1>4, <1>5

LEMMA TextSteps == ASSUME ShapeInv, Text PROVE Steps
<1>1. PICK s \in {"string", "object_field"} :
         /\ At(s)
         /\ Keep /\ Advance /\ UNCHANGED <<obj, err>>
         /\ \/ /\ c = scan.quote
               /\ IF s = "string" THEN Made(<<"string", scan.pb>>)
                  ELSE Set([Top EXCEPT !.state = "eatws", !.saved = "object_field_end",
                                       !.name = FieldName(scan.pb)])
               /\ UNCHANGED scan
            \/ /\ c = "\\"
               /\ Set([Top EXCEPT !.state = "string_escape", !.saved = s])
               /\ UNCHANGED scan
            \/ /\ c \notin {scan.quote, "\\"}
               /\ UNCHANGED stack
               /\ scan' = [scan EXCEPT !.pb = Append(@, <<c>>)]
  BY DEF Text
<1>2. s \notin Adds /\ s \notin Between \cup {"finish"} /\ s \in TextStates
  BY DEF Adds, Between, TextStates
<1>3. WaitInv => obj' = None
  BY <1>1, <1>2, CaseObj
<1>4. Formed(Top) /\ Placed(Top, scan.quote)
  BY TopIsPlaced DEF ShapeInv
<1>5. scan.quote # NUL
  BY <1>1, <1>2, <1>4 DEF At, Placed
<1>6. ScanStep(scan')
  <2>1. ScanStep(scan) /\ ScanStep([scan EXCEPT !.pb = Append(@, <<c>>)])
    BY ScanNow, ScanFields
  <2>2. QED
    BY <1>1, <2>1
<1>7. ASSUME Made(<<"string", scan.pb>>)
      PROVE  Changes
  <2>1. <<"string", scan.pb>> # None
    BY DEF None
  <2>2. "finish" \in Saved \ TextStates
    BY DEF Saved, TextStates
  <2>3. QED
    BY <1>3, <1>7, <2>1, <2>2, ValueChanges DEF Made, ShapeInv
<1>8. ASSUME NEW name,
             Set([Top EXCEPT !.state = "eatws", !.saved = "object_field_end",
                             !.name = name])
      PROVE  Changes
  <2>1. "object_field_end" \in Saved \ (Closing \cup TextStates)
    BY DEF Saved, Closing, TextStates
  <2>2. QED
    BY <1>3, <1>8, <2>1, NameChanges DEF ShapeInv
<1>9. ASSUME Set([Top EXCEPT !.state = "string_escape", !.saved = s])
      PROVE  Changes
  <2> DEFINE level == Level("string_escape", s, Top.cur, Top.name)
  <2>1. scan'.quote # NUL
    BY <1>5, <1>6 DEF ScanStep
  <2>2. Placed(level, scan'.quote)
    BY <2>1 DEF Level, Placed, Formed, Saved
  <2>3. Fits(level)
    BY <1>3 DEF Level, Fits, HasValue, Adds, Closing
  <2>4. [Top EXCEPT !.state = "string_escape", !.saved = s] = level
    BY <1>4, LevelFields
  <2>5. Set(level)
    <3> HIDE DEF level
    <3>1. QED
      BY <1>9, <2>4
  <2> HIDE DEF level
  <2>6. QED
    BY <2>2, <2>3, <2>5 DEF Changes
<1>10. CASE c # NUL /\ Changes
  BY <1>1, <1>2, <1>6, <1>10, CaseSteps DEF GoesOn
<1>11. CASE UNCHANGED stack
  <2>1. Passes'
    BY <1>1, <1>2, <1>11, StaysPassing DEF ShapeInv
  <2>2. QED
    BY <1>1, <1>2, <1>6, <1>11, <2>1, CaseSteps DEF GoesOn
<1>12. "\\" # NUL
  BY Zenon DEF NUL
<1>13. UNCHANGED stack \/ (c # NUL /\ Changes)
  BY <1>1, <1>5, <1>7, <1>8, <1>9, <1>12, Zenon
<1>14. QED
  BY <1>10, <1>11, <1>13

LEMMA StringEscapeSteps == ASSUME ShapeInv, StringEscape PROVE Steps
<1>1. At("string_escape") /\ Keep /\ UNCHANGED obj
  BY DEF StringEscape
<1>2. "string_escape" \notin Adds
  BY DEF Adds
<1>3. GoesOn
  <2>1. NUL \notin {"\"", "\\", "/"} /\ NUL \notin DOMAIN Control /\ NUL # "u"
    BY Zenon DEF NUL, Control
  <2>2. (Advance /\ c # NUL) \/ Fail("string")
    BY <2>1, Zenon DEF StringEscape
  <2>3. "string" # "success"
    OBVIOUS
  <2>4. QED
    BY <2>2, <2>3, Zenon DEF GoesOn, Fail
<1>4. ScanStep(scan')
  <2>1. ScanStep(scan)
    BY ScanNow
  <2>2. \A x : ScanStep([scan EXCEPT !.pb = x])
    BY <2>1, ScanFields
  <2>3. ScanStep([scan EXCEPT !.ucs = <<>>, !.st_pos = 0, !.hi = <<>>])
    BY <2>1, ScanFields
  <2>4. QED
    BY <2>1, <2>2, <2>3 DEF StringEscape
<1>5. UNCHANGED stack \/ Changes
  <2>1. WaitInv => obj' = None
    BY <1>1, <1>2, CaseObj
  <2>2. ASSUME Goto(Top.saved)
        PROVE  Changes
    <3>1. Top.state \in Passing
      BY <1>1 DEF At, Passing
    <3>2. QED
      BY <1>4, <2>1, <2>2, <3>1, SavedChanges DEF ShapeInv
  <2>3. ASSUME Goto("escape_unicode")
        PROVE  Changes
    <3>1. "escape_unicode" \notin Adds \cup Closing \cup TextStates
      BY DEF Adds, Closing, TextStates
    <3>2. WaitInv => (Top.saved \in Closing => Top.cur # None)
      BY <1>1 DEF At, WaitInv, HasValue, Passing
    <3>3. Top.saved # "finish"
      BY <1>1, TopIsPlaced DEF ShapeInv, At, Placed, Between
    <3>4. QED
      BY <1>4, <2>1, <2>3, <3>1, <3>2, <3>3, GotoChanges DEF ShapeInv
  <2>4. QED
    BY <2>2, <2>3 DEF StringEscape, Fail
<1>6. QED
  BY <1>1, <1>2, <1>3, <1>4, <1>5, CaseSteps

LEMMA NumberSteps == ASSUME ShapeInv, Number PROVE Steps
<1>1. At("number") /\ Keep /\ UNCHANGED obj
  BY DEF Number
<1>2. "number" \notin Adds /\ "number" \notin Between \cup {"finish"}
  BY DEF Adds, Between
<1>3. GoesOn
  <2>1. NUL \notin NumberChar
    BY DEF NUL, NumberChar, Digit
  <2>2. QED
    BY <2>1 DEF Number, GoesOn, Fail
<1>4. ScanStep(scan')
  <2>1. ScanStep(scan)
    BY ScanNow
  <2>2. ASSUME NEW x, NEW y, NEW z \in BOOLEAN
        PROVE  ScanStep([scan EXCEPT !.pb = x, !.case_len = y, !.is_double = z])
    BY <2>1, ScanFields
  <2>3. CASE scan' = [scan EXCEPT !.pb = Append(@, <<c>>), !.case_len = @ + 1,
                                  !.is_double = @ \/ c \in {".", "e"}]
    <3>1. (scan.is_double \/ c \in {".", "e"}) \in BOOLEAN
      BY Zenon
    <3>2. QED
      BY <2>2, <2>3, <3>1
  <2>4. QED
    BY <2>1, <2>3 DEF Number
<1>5. UNCHANGED stack \/ Changes
  <2>1. WaitInv => obj' = None
    BY <1>1, <1>2, CaseObj
  <2>2. ASSUME NEW kind \in {"int", "double"}, Made(<<kind, scan.pb>>)
        PROVE  Changes
    <3>1. <<kind, scan.pb>> # None
      BY DEF None
    <3>2. "finish" \in Saved \ TextStates
      BY DEF Saved, TextStates
    <3>3. QED
      BY <2>1, <2>2, <3>1, <3>2, ValueChanges DEF Made, ShapeInv
  <2>3. ASSUME Goto("inf")
        PROVE  Changes
    <3>1. "inf" \notin Adds \cup Closing \cup Passing \cup TextStates
      BY DEF Adds, Closing, Passing, Between, TextStates
    <3>2. Top.saved # "finish"
      BY <1>1, <1>2, TopIsPlaced DEF ShapeInv, At, Placed
    <3>3. QED
      BY <1>4, <2>1, <2>3, <3>1, <3>2, GotoChanges DEF ShapeInv
  <2>4. QED
    BY <2>2, <2>3 DEF Number, Fail
<1>6. QED
  BY <1>1, <1>2, <1>3, <1>4, <1>5, CaseSteps

\* A level opened, or refused.
LEMMA DescendOpens ==
    ASSUME ShapeInv, NEW s \in Adds, Descend(s), UNCHANGED obj,
           NEW at, At(at), at \notin Adds, at \notin Between \cup {"finish"}
    PROVE  (UNCHANGED stack \/ Opens) /\ GoesOn
<1>1. Len(stack) \in Nat \ {0}
  BY TopIsPlaced DEF ShapeInv
<1>2. CASE Fail("depth")
  BY <1>2 DEF Fail, GoesOn
<1>3. CASE /\ Depth < MaxDepth - 1
           /\ stack' = Append([stack EXCEPT ![Len(stack)] = [Top EXCEPT !.state = s]],
                              Fresh)
           /\ Redo
  <2>1. Len(stack) < MaxDepth
    BY <1>1, <1>3, DepthAssumption DEF Depth
  <2>2. Top.saved # "finish"
    BY TopIsPlaced DEF ShapeInv, At, Placed
  <2>3. WaitInv => obj = None
    BY CaseObj
  <2>4. Opens
    BY <1>3, <2>1, <2>2, <2>3 DEF Opens
  <2>5. QED
    BY <1>3, <2>4 DEF GoesOn
<1>4. QED
  BY <1>2, <1>3 DEF Descend

\* A container's member, separator or end, read after blanks.
LEMMA AwaitSteps ==
    ASSUME ShapeInv, NEW at, At(at), at \notin Adds, Keep, UNCHANGED <<obj, scan>>,
           NEW s \in Saved \ TextStates, Await(s), Advance, c # NUL,
           s \in Closing => at \in Closing
    PROVE  Steps
<1>1. WaitInv => obj' = None
  BY CaseObj
<1>2. WaitInv => (s \in Closing => Top.cur # None)
  BY DEF At, WaitInv, HasValue
<1>3. Changes
  BY <1>1, <1>2, AwaitChanges DEF ShapeInv
<1>4. GoesOn
  BY DEF GoesOn
<1>5. QED
  BY <1>3, <1>4, ScanNow, CaseSteps

\* ... or missed.
LEMMA FailSteps ==
    ASSUME ShapeInv, NEW at, At(at), at \notin Adds, Keep, UNCHANGED <<obj, scan>>,
           NEW e, e # "success", Fail(e)
    PROVE  Steps
BY ScanNow, CaseSteps DEF Fail, GoesOn

LEMMA ArraySteps == ASSUME ShapeInv, Array PROVE Steps
<1>1. PICK s \in {"array", "array_after_sep"} : At(s)
  BY DEF Array
<1>2. Keep /\ UNCHANGED <<obj, scan>>
  BY DEF Array, Quiet
<1>3. /\ s \notin Adds /\ s \in Closing /\ s \notin Between \cup {"finish"}
      /\ "array_add" \in Adds /\ "finish" \in Saved \ TextStates
  BY DEF Adds, Closing, Between, Saved, TextStates
<1>4. CASE Await("finish") /\ Advance /\ c # NUL
  BY <1>1, <1>2, <1>3, <1>4, AwaitSteps
<1>5. CASE Descend("array_add")
  BY <1>1, <1>2, <1>3, <1>5, DescendOpens, ScanNow, CaseSteps
<1>6. "]" # NUL
  BY Zenon DEF NUL
<1>7. QED
  BY <1>4, <1>5, <1>6, Zenon DEF Array

LEMMA ArraySepSteps == ASSUME ShapeInv, ArraySep PROVE Steps
<1>1. At("array_sep") /\ Keep /\ UNCHANGED <<obj, scan>>
  BY DEF ArraySep, Quiet
<1>2. /\ "array_sep" \notin Adds /\ "array_sep" \in Closing
      /\ {"finish", "array_after_sep"} \subseteq Saved \ TextStates
  BY DEF Adds, Closing, Saved, TextStates
<1>3. ASSUME NEW s \in {"finish", "array_after_sep"}, Await(s), Advance, c # NUL
      PROVE  Steps
  BY <1>1, <1>2, <1>3, AwaitSteps
<1>4. CASE Fail("array")
  BY <1>1, <1>2, <1>4, FailSteps
<1>5. "]" # NUL /\ "," # NUL
  BY Zenon DEF NUL
<1>6. QED
  BY <1>3, <1>4, <1>5, Zenon DEF ArraySep

LEMMA ObjectFieldStartSteps == ASSUME ShapeInv, ObjectFieldStart PROVE Steps
<1>1. PICK s \in {"object_field_start", "object_field_start_after_sep"} : At(s)
  BY DEF ObjectFieldStart
<1>2. Keep /\ UNCHANGED obj
  BY DEF ObjectFieldStart
<1>3. /\ s \notin Adds /\ s \in Closing /\ s \notin Between \cup {"finish"}
      /\ "finish" \in Saved \ TextStates
  BY DEF Adds, Closing, Between, Saved, TextStates
<1>4. CASE Await("finish") /\ Advance /\ UNCHANGED scan /\ c # NUL
  BY <1>1, <1>2, <1>3, <1>4, AwaitSteps
<1>5. CASE /\ c \in Quote
           /\ Goto("object_field") /\ Advance
           /\ scan' = [scan EXCEPT !.pb = <<>>, !.quote = c]
  <2>1. "object_field" \notin Adds \cup Closing \cup Passing
    BY DEF Adds, Closing, Passing, Between
  <2> DEFINE s1 == [scan EXCEPT !.pb = <<>>]
  <2>2. ScanStep(s1)
    BY ScanNow, ScanFields
  <2>3. scan' = [s1 EXCEPT !.quote = c]
    BY <1>5
  <2> HIDE DEF s1
  <2>4. ScanStep([s1 EXCEPT !.quote = c]) /\ [s1 EXCEPT !.quote = c].quote # NUL
    BY <1>5, <2>2, ScanFields, Zenon
  <2>5. ScanStep(scan') /\ scan'.quote # NUL
    BY <2>3, <2>4, Zenon
  <2>6. Top.saved # "finish"
    BY <1>1, <1>3, TopIsPlaced DEF ShapeInv, At, Placed
  <2>7. WaitInv => obj' = None
    BY <1>1, <1>2, <1>3, CaseObj
  <2>8. Changes
    BY <1>5, <2>1, <2>5, <2>6, <2>7, GotoChanges DEF ShapeInv
  <2>9. c # NUL
    BY <1>5, Zenon DEF Quote, NUL
  <2>10. QED
    BY <1>1, <1>2, <1>3, <1>5, <2>5, <2>8, <2>9, CaseSteps DEF GoesOn
<1>6. CASE Fail("object_key_name") /\ UNCHANGED scan
  BY <1>1, <1>2, <1>3, <1>6, FailSteps
<1>7. "}" # NUL
  BY Zenon DEF NUL
<1>8. QED
  BY <1>4, <1>5, <1>6, <1>7, Zenon DEF ObjectFieldStart

LEMMA ObjectFieldEndSteps == ASSUME ShapeInv, ObjectFieldEnd PROVE Steps
<1>1. At("object_field_end") /\ Keep /\ UNCHANGED <<obj, scan>>
  BY DEF ObjectFieldEnd, Quiet
<1>2. /\ "object_field_end" \notin Adds
      /\ "object_value" \in Saved \ TextStates /\ "object_value" \notin Closing
  BY DEF Adds, Closing, Saved, TextStates
<1>3. CASE Await("object_value") /\ Advance /\ c # NUL
  BY <1>1, <1>2, <1>3, AwaitSteps
<1>4. CASE Fail("object_key_sep")
  BY <1>1, <1>2, <1>4, FailSteps
<1>5. ":" # NUL
  BY Zenon DEF NUL
<1>6. QED
  BY <1>3, <1>4, <1>5, Zenon DEF ObjectFieldEnd

LEMMA ObjectValueSteps == ASSUME ShapeInv, ObjectValue PROVE Steps
<1>1. At("object_value") /\ Keep /\ UNCHANGED <<obj, scan>>
  BY DEF ObjectValue, Quiet
<1>2. /\ "object_value" \notin Adds /\ "object_value" \notin Between \cup {"finish"}
      /\ "object_value_add" \in Adds
  BY DEF Adds, Between
<1>3. (UNCHANGED stack \/ Opens) /\ GoesOn
  BY <1>1, <1>2, DescendOpens DEF ObjectValue
<1>4. QED
  BY <1>1, <1>2, <1>3, ScanNow, CaseSteps

LEMMA ObjectSepSteps == ASSUME ShapeInv, ObjectSep PROVE Steps
<1>1. At("object_sep") /\ Keep /\ UNCHANGED <<obj, scan>>
  BY DEF ObjectSep, Quiet
<1>2. /\ "object_sep" \notin Adds /\ "object_sep" \in Closing
      /\ {"finish", "object_field_start_after_sep"} \subseteq Saved \ TextStates
  BY DEF Adds, Closing, Saved, TextStates
<1>3. ASSUME NEW s \in {"finish", "object_field_start_after_sep"}, Await(s),
             Advance, c # NUL
      PROVE  Steps
  BY <1>1, <1>2, <1>3, AwaitSteps
<1>4. CASE Fail("object_value_sep")
  BY <1>1, <1>2, <1>4, FailSteps
<1>5. "}" # NUL /\ "," # NUL
  BY Zenon DEF NUL
<1>6. QED
  BY <1>3, <1>4, <1>5, Zenon DEF ObjectSep

\* A member stored: no character is read.
LEMMA AddSteps ==
    ASSUME ShapeInv, NEW s, At(s), Keep, Redo, UNCHANGED scan, obj' = None, Changes
    PROVE  Steps
<1>1. Moves
  BY OnTheWay DEF ShapeInv
<1>2. Exits'
  BY WayOut DEF GoesOn
<1>3. QED
  BY <1>1, <1>2, ScanNow DEF Steps

LEMMA ArrayAddSteps == ASSUME ShapeInv, ArrayAdd PROVE Steps
<1>1. At("array_add") /\ Redo /\ Keep /\ UNCHANGED scan /\ obj' = None
  BY DEF ArrayAdd
<1>2. <<"array", Append(Top.cur[2], obj)>> # None
  BY DEF None
<1>3. Set([Top EXCEPT !.state = "eatws", !.saved = "array_sep",
                      !.cur = <<"array", Append(Top.cur[2], obj)>>])
  BY DEF ArrayAdd
<1>4. "array_sep" \in Saved \ TextStates
  BY DEF Saved, TextStates
<1>5. Changes
  BY <1>1, <1>2, <1>3, <1>4, ValueChanges DEF ShapeInv
<1>6. QED
  BY <1>1, <1>5, AddSteps

LEMMA ObjectValueAddSteps == ASSUME ShapeInv, ObjectValueAdd PROVE Steps
<1> DEFINE v == <<"object", WithField(Top.cur[2], Top.name, obj)>>
<1>1. At("object_value_add") /\ Redo /\ Keep /\ UNCHANGED scan /\ obj' = None
  BY DEF ObjectValueAdd
<1>2. v # None
  BY DEF None
<1>3. Set(Filled(Top, "eatws", "object_sep", v, <<>>))
  BY DEF ObjectValueAdd, Filled
<1> HIDE DEF v
<1>4. Filled(Top, "eatws", "object_sep", v, <<>>) = Level("eatws", "object_sep", v, <<>>)
  BY TopIsPlaced, AllFields DEF ShapeInv
<1>5. "object_sep" \in Saved \ TextStates
  BY DEF Saved, TextStates
<1>6. Changes
  BY <1>1, <1>2, <1>3, <1>4, <1>5, BlankChanges
<1>7. QED
  BY <1>1, <1>6, AddSteps

\* What a digit of an escape, and a complete code unit, do to scan.
Counted(s, n, u)         == [s EXCEPT !.st_pos = n, !.ucs = u]
Collected(s, p, n, u, h) == [s EXCEPT !.pb = p, !.st_pos = n, !.ucs = u, !.hi = h]

LEMMA CollectedIsOK ==
    ASSUME NEW s, ScanStep(s), NEW n \in Nat, NEW p, NEW u, NEW h
    PROVE  /\ ScanStep(Counted(s, n, u))
           /\ ScanStep(Collected(s, p, n, u, h))
<1> DEFINE s1 == [s EXCEPT !.pb = p]
           s2 == [s1 EXCEPT !.st_pos = n]
           s3 == [s2 EXCEPT !.ucs = u]
           s4 == [s3 EXCEPT !.hi = h]
           r1 == [s EXCEPT !.st_pos = n]
           r2 == [r1 EXCEPT !.ucs = u]
<1>1. Collected(s, p, n, u, h) = s4 /\ Counted(s, n, u) = r2
  BY DEF Collected, Counted
<1>2. ScanStep(s1)
  BY ScanFields
<1> HIDE DEF s1
<1>3. ScanStep(s2)
  BY <1>2, ScanFields
<1> HIDE DEF s2
<1>4. ScanStep(s3)
  BY <1>3, ScanFields
<1> HIDE DEF s3
<1>5. ScanStep(s4)
  BY <1>4, ScanFields
<1>6. ScanStep(r1)
  BY ScanFields
<1> HIDE DEF r1
<1>7. ScanStep(r2)
  BY <1>6, ScanFields
<1>8. QED
  BY <1>1, <1>5, <1>7

LEMMA EscapeUnicodeSteps == ASSUME ShapeInv, EscapeUnicode PROVE Steps
<1>1. At("escape_unicode") /\ Keep /\ UNCHANGED obj
  BY DEF EscapeUnicode
<1>2. "escape_unicode" \notin Adds /\ "escape_unicode" \notin Between \cup {"finish"}
  BY DEF Adds, Between
<1>3. WaitInv => obj' = None
  BY <1>1, <1>2, CaseObj
<1>4. ScanStep(scan')
  <2>1. ScanStep(scan) /\ scan.st_pos + 1 \in Nat /\ 0 \in Nat
    BY ScanNow DEF ScanStep, ScanOK
  <2>2. CASE scan' = scan
    BY <2>1, <2>2
  <2>3. ASSUME NEW n, NEW u, scan' = Counted(scan, n, u), n = scan.st_pos + 1
        PROVE  ScanStep(scan')
    BY <2>1, <2>3, CollectedIsOK
  <2>4. ASSUME NEW p, NEW n, NEW u, NEW h, scan' = Collected(scan, p, n, u, h),
               n \in {0, scan.st_pos + 1}
        PROVE  ScanStep(scan')
    BY <2>1, <2>4, CollectedIsOK
  <2> DEFINE digits == Append(scan.ucs, c)
             full == scan.st_pos + 1 = HexDigits
             lone == Unpaired(scan.hi, digits)
             held == Held(digits)
             high == LooksHigh(scan.hi, digits)
  <2>5. CASE c \in HexChar /\ ~full
    <3> DEFINE u == IF scan.st_pos < HexDigits THEN digits ELSE scan.ucs
    <3>1. scan' = [scan EXCEPT !.st_pos = @ + 1, !.ucs = u]
      BY <2>5 DEF EscapeUnicode
    <3> HIDE DEF u
    <3>2. scan' = Counted(scan, scan.st_pos + 1, u)
      BY <3>1 DEF Counted
    <3>3. QED
      BY <2>3, <3>2
  <2>6. CASE full /\ ~high
    <3> DEFINE d == Decoded(scan.hi, digits)
    <3>1. CASE scan' = [scan EXCEPT !.pb = @ \o d, !.st_pos = @ + 1,
                                    !.ucs = digits, !.hi = <<>>]
      <4> HIDE DEF d, digits
      <4>1. scan' = Collected(scan, scan.pb \o d, scan.st_pos + 1, digits, <<>>)
        BY <3>1 DEF Collected
      <4>2. QED
        BY <2>4, <4>1
    <3>2. QED
      BY <2>2, <2>6, <3>1 DEF EscapeUnicode
  <2>7. CASE full /\ high
    <3>1. CASE scan' = [scan EXCEPT !.pb = @ \o lone \o <<Repl>>, !.st_pos = @ + 1,
                                    !.ucs = digits, !.hi = <<>>]
      <4> HIDE DEF digits, lone
      <4>1. scan' = Collected(scan, scan.pb \o lone \o <<Repl>>,
                              scan.st_pos + 1, digits, <<>>)
        BY <3>1 DEF Collected
      <4>2. QED
        BY <2>4, <4>1
    <3>2. CASE scan' = [scan EXCEPT !.pb = @ \o lone, !.st_pos = 0,
                                    !.ucs = <<>>, !.hi = held]
      <4> HIDE DEF digits, lone, held
      <4>1. scan' = Collected(scan, scan.pb \o lone, 0, <<>>, held)
        BY <3>2 DEF Collected
      <4>2. QED
        BY <2>4, <4>1
    <3>3. QED
      BY <2>2, <2>7, <3>1, <3>2 DEF EscapeUnicode
  <2>8. CASE c \notin HexChar
    BY <2>2, <2>8 DEF EscapeUnicode
  <2>9. QED
    BY <2>5, <2>6, <2>7, <2>8
<1>5. CASE UNCHANGED stack /\ (Advance \/ Fail("string"))
  <2>1. Passes'
    BY <1>1, <1>2, <1>5, StaysPassing DEF ShapeInv
  <2>2. GoesOn
    BY <1>5, <2>1 DEF GoesOn, Fail
  <2>3. QED
    BY <1>1, <1>2, <1>4, <1>5, <2>2, CaseSteps
<1>6. CASE Goto(Top.saved) /\ Advance
  <2>1. Top.saved # "finish"
    BY <1>1, <1>2, TopIsPlaced DEF ShapeInv, At, Placed
  <2>2. Top.state \in Passing
    BY <1>1 DEF At, Passing
  <2>3. Changes /\ Top'.state = Top.saved /\ Top'.saved = Top.saved
    BY <1>3, <1>4, <1>6, <2>2, SavedChanges DEF ShapeInv
  <2>4. GoesOn
    BY <1>6, <2>1, <2>3 DEF GoesOn, Passes
  <2>5. QED
    BY <1>1, <1>2, <1>4, <2>3, <2>4, CaseSteps
<1>7. CASE pos' = pos + 3 /\ UNCHANGED <<phase, stack>> /\ pos + 3 <= end
  <2>1. Moves
    BY <1>1, <1>3, <1>7 DEF Moves, Keep, At, ShapeInv, PosInv
  <2>2. Stays /\ Exits'
    BY <1>1, <1>7 DEF Stays, Exits, At
  <2>3. QED
    BY <1>4, <2>1, <2>2 DEF Steps
<1>8. QED
  BY <1>5, <1>6, <1>7 DEF EscapeUnicode, Fail

-----------------------------------------------------------------------------
(* The invariants.  A case of the switch keeps both: it does not return.   *)

LEMMA StepsKeepShape == ASSUME ShapeInv, Steps PROVE ShapeInv'
<1>1. StackInv /\ ScanStep(scan')
  BY DEF ShapeInv, Steps
<1>2. StackInv'
  <2>1. CASE Stays
    <3>1. \A i \in 1 .. Len(stack) : Placed(stack[i], scan'.quote)
      BY <1>1, PlacedLater DEF StackInv
    <3>2. QED
      BY <1>1, <2>1, <3>1 DEF Stays, StackInv
  <2>2. CASE Changes
    BY <1>1, <2>2, ChangeKeeps DEF Changes
  <2>3. CASE Opens
    BY <1>1, <2>3, OpenKeeps
  <2>4. CASE Closes
    BY <1>1, <2>4, CloseKeeps
  <2>5. QED
    BY <2>1, <2>2, <2>3, <2>4 DEF Steps
<1>3. PosInv'
  BY DEF ShapeInv, PosInv, Steps, Moves
<1>4. ScanOK(scan)' /\ Exits'
  BY DEF Steps, ScanStep
<1>5. QED
  BY <1>2, <1>3, <1>4 DEF ShapeInv

LEMMA StepsKeepWait == ASSUME ShapeInv, WaitInv, Steps PROVE WaitInv'
<1>1. /\ StackInv /\ ScanStep(scan') /\ Len(stack) \in Nat \ {0}
      /\ obj' # None => phase' = "run" /\ pos' < end'
  BY TopIsPlaced DEF ShapeInv, Steps, Moves
<1>2. StartsFresh'
  BY DEF Steps, Moves, StartsFresh
<1>3. CASE Stays
  BY <1>1, <1>2, <1>3 DEF Stays, WaitInv, Top
<1>4. CASE Changes
  <2>1. PICK level : Placed(level, scan'.quote) /\ Fits(level) /\ Set(level)
    BY <1>4 DEF Changes
  <2>2. /\ Len(stack') = Len(stack) /\ Top' = level
        /\ \A i \in 1 .. Len(stack) - 1 : stack'[i] = stack[i]
    BY <1>1, <2>1, ChangeKeeps
  <2>3. \A i \in 1 .. Len(stack') - 1 : stack'[i].state \in Adds
    BY <2>2 DEF WaitInv
  <2>4. (Top.state \in Adds <=> obj # None)' /\ HasValue(Top)'
    BY <2>1, <2>2 DEF Fits, HasValue
  <2>5. QED
    BY <1>1, <1>2, <2>3, <2>4 DEF WaitInv
<1>5. CASE Opens
  <2>1. /\ Len(stack') = Len(stack) + 1 /\ Top' = Fresh
        /\ \A i \in 1 .. Len(stack) - 1 : stack'[i] = stack[i]
        /\ stack'[Len(stack)].state \in Adds
    BY <1>1, <1>5, OpenKeeps
  <2>2. \A i \in 1 .. Len(stack') - 1 : stack'[i].state \in Adds
    <3>1. SUFFICES ASSUME NEW i \in 1 .. Len(stack)
                   PROVE  stack'[i].state \in Adds
      BY <1>1, <2>1
    <3>2. CASE i = Len(stack)
      BY <2>1, <3>2
    <3>3. CASE i # Len(stack)
      BY <1>1, <2>1, <3>3 DEF WaitInv
    <3>4. QED
      BY <3>2, <3>3
  <2>3. (Top.state \in Adds <=> obj # None)' /\ HasValue(Top)'
    BY <1>5, <2>1, FreshIsPlaced DEF Opens, HasValue
  <2>4. QED
    BY <1>1, <1>2, <2>2, <2>3 DEF WaitInv
<1>6. CASE Closes
  <2>1. /\ Len(stack') = Len(stack) - 1 /\ Top' = stack[Len(stack) - 1]
        /\ \A i \in 1 .. Len(stack) - 1 : stack'[i] = stack[i]
    BY <1>1, <1>6, CloseKeeps
  <2>2. Top'.state \in Adds
    BY <1>1, <1>6, <2>1 DEF WaitInv, Closes
  <2>3. obj' # None
    BY <1>6 DEF Closes, WaitInv, HasValue, Closing
  <2>4. HasValue(Top)'
    BY <2>2 DEF HasValue, Adds, Closing, Passing, Between
  <2>5. \A i \in 1 .. Len(stack') - 1 : stack'[i].state \in Adds
    BY <1>1, <2>1 DEF WaitInv
  <2>6. QED
    BY <1>1, <1>2, <2>2, <2>3, <2>4, <2>5 DEF WaitInv
<1>7. QED
  BY <1>3, <1>4, <1>5, <1>6 DEF Steps

LEMMA MachineSteps == ASSUME ShapeInv, Machine PROVE Steps \/ Return
BY EndOfChunkSteps, EatWsSteps, StartSteps, FinishSteps, InfSteps, NullSteps,
   BooleanSteps, CommentSteps, TextSteps, StringEscapeSteps, EscapeUnicodeSteps,
   NumberSteps, ArraySteps, ArrayAddSteps, ArraySepSteps, ObjectFieldStartSteps,
   ObjectFieldEndSteps, ObjectValueSteps, ObjectValueAddSteps, ObjectSepSteps
   DEF Machine

\* A return on success was met at the lowest level, or in a comment left open.
LEMMA ReturnIsWhole ==
    ASSUME ShapeInv, Return, err' = "success"
    PROVE  Depth = 0 \/ LeftOpen
<1>1. Len(stack) \in Nat \ {0}
  BY TopIsPlaced DEF ShapeInv
<1>2. CASE phase = "out"
  BY <1>2 DEF Return, ShapeInv, Exits
<1>3. CASE phase = "eof"
  <2>1. err = "success" /\ "finish" \in {Top.state, Top.saved}
    BY <1>3 DEF Return
  <2>2. CASE Depth = 0
    BY <2>2
  <2>3. CASE Depth # 0
    <3>1. Depth > 0
      <4>1. \A n \in Nat \ {0} : n - 1 # 0 => n - 1 > 0
        OBVIOUS
      <4>2. QED
        BY <1>1, <2>3, <4>1, Zenon DEF Depth
    <3>2. Top.state \in {"comment", "comment_eol"}
      BY <1>3, <2>1, <2>3 DEF ShapeInv, Exits, Passes
    <3>3. QED
      BY <1>3, <2>1, <3>1, <3>2 DEF LeftOpen
  <2>4. QED
    BY <2>2, <2>3
<1>4. QED
  BY <1>2, <1>3 DEF Return

LEMMA ReturnKeepsShape == ASSUME ShapeInv, Return PROVE ShapeInv'
<1>1. Len(stack) \in Nat \ {0} /\ Len(stack) <= MaxDepth /\ DOMAIN stack = 1 .. Len(stack)
  <2>1. PICK L : stack \in Seq(L)
    BY DEF ShapeInv, StackInv
  <2>2. QED
    BY <2>1, TopIsPlaced DEF ShapeInv, StackInv
<1>2. StackInv'
  <2>1. CASE stack' = [i \in DOMAIN stack |-> Fresh]
    BY <1>1, <2>1, FreshLevels
  <2>2. CASE stack' = stack
    BY <2>2 DEF ShapeInv, StackInv, Return
  <2>3. QED
    BY <2>1, <2>2 DEF Return
<1>3. QED
  BY <1>2 DEF ShapeInv, PosInv, Exits, Return

LEMMA ReturnKeepsWait == ASSUME ShapeInv, WaitInv, ~LeftOpen, Return PROVE WaitInv'
<1>1. obj = None /\ obj' = None /\ phase' = "idle"
  BY DEF WaitInv, Return
<1>2. Len(stack) \in Nat \ {0} /\ DOMAIN stack = 1 .. Len(stack)
  <2>1. PICK L : stack \in Seq(L)
    BY DEF ShapeInv, StackInv
  <2>2. QED
    BY <2>1, TopIsPlaced DEF ShapeInv
<1>3. CASE err' = "success"
  <2>1. Len(stack) = 1
    BY <1>2, <1>3, ReturnIsWhole DEF Depth
  <2>2. stack' = <<Fresh>>
    <3>1. stack' = [i \in 1 .. 1 |-> Fresh]
      BY <1>2, <1>3, <2>1 DEF Return
    <3>2. QED
      BY <3>1 DEF Fresh
  <2>3. Len(stack') = 1 /\ Top' = Fresh
    BY <2>2 DEF Top
  <2>4. QED
    BY <1>1, <2>2, <2>3, FreshIsPlaced DEF WaitInv, StartsFresh, HasValue
<1>4. CASE err' # "success"
  <2>1. stack' = stack
    BY <1>4 DEF Return
  <2>2. QED
    BY <1>1, <1>4, <2>1 DEF WaitInv, StartsFresh, Top
<1>5. QED
  BY <1>3, <1>4

\* A call on characters of the text that are still to come.
LEMMA CallKeeps ==
    ASSUME ShapeInv, phase = "idle", NEW e \in Nat, Call(e), text' \in Seq(STRING),
           pos' \in Nat, pos' <= e, e <= Len(text') + 2
    PROVE  ShapeInv' /\ (WaitInv => WaitInv')
<1>1. obj = None /\ obj' = None /\ phase' = "run" /\ stack' = stack
  BY DEF ShapeInv, PosInv, Call
<1>2. ScanStep(scan')
  <2>1. ScanStep([scan EXCEPT !.hi = <<>>])
    BY ScanNow, ScanFields
  <2>2. QED
    BY <2>1, ScanFields DEF Call
<1>3. StackInv'
  <2>1. \A i \in 1 .. Len(stack) : Placed(stack[i], scan'.quote)
    BY <1>2, PlacedLater DEF ShapeInv, StackInv
  <2>2. QED
    BY <1>1, <2>1 DEF ShapeInv, StackInv
<1>4. PosInv' /\ ScanOK(scan)' /\ Exits'
  BY <1>1, <1>2 DEF PosInv, Call, ScanStep, Exits
<1>5. WaitInv => WaitInv'
  BY <1>1 DEF WaitInv, StartsFresh, Top
<1>6. QED
  BY <1>3, <1>4, <1>5 DEF ShapeInv

LEMMA ParseKeeps == ASSUME ShapeInv, Parse PROVE ShapeInv' /\ (WaitInv => WaitInv')
<1>1. phase = "idle" /\ pos' = 0
  BY DEF Parse
<1>2. ASSUME NEW txt \in Whole \cup Cut \cup Reused, text' = txt, NEW e, Call(e),
             e = Len(txt) \/ e \in 1 .. Len(txt)
      PROVE  ShapeInv' /\ (WaitInv => WaitInv')
  <2>1. txt \in Seq(STRING) /\ Len(txt) \in Nat
    BY TextAssumption
  <2>2. e \in Nat /\ 0 <= e /\ e <= Len(txt) + 2
    BY <1>2, <2>1
  <2>3. QED
    BY <1>1, <1>2, <2>1, <2>2, CallKeeps
<1>3. \/ \E txt \in Whole : text' = txt /\ Call(Len(txt))
      \/ \E txt \in Cut \cup Reused :
            text' = txt /\ \E e \in 1 .. Len(txt) : Call(e)
  BY DEF Parse
<1>4. QED
  BY <1>2, <1>3

LEMMA ParseMoreKeeps ==
    ASSUME ShapeInv, ParseMore PROVE ShapeInv' /\ (WaitInv => WaitInv')
<1>1. text \in Seq(STRING) /\ Len(text) \in Nat /\ pos \in Nat
  BY DEF ShapeInv, PosInv
<1>2. PICK e \in pos + 1 .. Len(text) : Call(e)
  BY DEF ParseMore
<1>3. e \in Nat /\ pos <= e /\ e <= Len(text) + 2
  BY <1>1
<1>4. phase = "idle" /\ text' = text /\ pos' = pos
  BY DEF ParseMore
<1>5. QED
  BY <1>1, <1>2, <1>3, <1>4, CallKeeps

LEMMA ParseEndKeeps ==
    ASSUME ShapeInv, ParseEnd PROVE ShapeInv' /\ (WaitInv => WaitInv')
<1>1. text \in Seq(STRING) /\ Len(text) \in Nat /\ pos = Len(text)
  BY DEF ShapeInv, PosInv, ParseEnd
<1>2. Len(text) + 2 \in Nat /\ pos \in Nat /\ pos <= Len(text) + 2
  BY <1>1
<1>3. phase = "idle" /\ text' = text /\ pos' = pos /\ Call(Len(text) + 2)
  BY DEF ParseEnd
<1>4. QED
  BY <1>1, <1>2, <1>3, CallKeeps

LEMMA ResetKeeps == ASSUME ShapeInv, Reset PROVE ShapeInv' /\ WaitInv'
<1>1. obj' = None /\ phase' = "idle" /\ stack' = <<Fresh>> /\ scan' = scan
  BY DEF ShapeInv, PosInv, Reset
<1>2. StackInv'
  <2>1. 1 \in Nat \ {0} /\ 1 <= MaxDepth
    BY DepthAssumption
  <2>2. stack' = [i \in 1 .. 1 |-> Fresh]
    BY <1>1 DEF Fresh
  <2>3. QED
    BY <2>1, <2>2, FreshLevels
<1>3. PosInv' /\ ScanOK(scan)' /\ Exits'
  <2>1. text' \in Seq(STRING) /\ Len(text') = 0
    BY DEF Reset
  <2>2. QED
    BY <1>1, <2>1 DEF ShapeInv, PosInv, Reset, Exits
<1>4. WaitInv'
  <2>1. Len(stack') = 1 /\ Top' = Fresh
    BY <1>1 DEF Top
  <2>2. QED
    BY <1>1, <2>1, FreshIsPlaced DEF WaitInv, StartsFresh, HasValue
<1>5. QED
  BY <1>2, <1>3, <1>4 DEF ShapeInv

LEMMA InitHolds == Init => ShapeInv /\ WaitInv
<1> SUFFICES ASSUME Init PROVE ShapeInv /\ WaitInv
  OBVIOUS
<1>1. /\ stack \in Seq({Fresh}) /\ Len(stack) = 1 /\ stack[1] = Fresh
      /\ stack # <<>> /\ obj = None
  BY DEF Init
<1>2. Top = Fresh
  BY <1>1 DEF Top
<1>3. StackInv
  <2>1. \A i \in 1 .. Len(stack) : Placed(stack[i], scan.quote)
    BY <1>1, FreshIsPlaced
  <2>2. Len(stack) <= MaxDepth
    BY <1>1, DepthAssumption
  <2>3. QED
    BY <1>1, <2>1, <2>2 DEF StackInv
<1>4. PosInv
  <2>1. text \in Seq(STRING) /\ Len(text) = 0
    BY DEF Init
  <2>2. QED
    BY <2>1 DEF Init, PosInv
<1>5. ScanOK(scan) /\ StartsFresh /\ Exits
  BY DEF Init, ScanOK, Clean, StartsFresh, Exits
<1>6. WaitInv
  BY <1>1, <1>2, <1>5, FreshIsPlaced DEF WaitInv
<1>7. QED
  BY <1>3, <1>4, <1>5, <1>6 DEF ShapeInv

\* Every step of the machine and every call of the client keeps the shape,
\* whatever the text.
THEOREM ShapeHolds == Spec => []ShapeInv
<1>1. ShapeInv /\ [Next]_vars => ShapeInv'
  <2> SUFFICES ASSUME ShapeInv, [Next]_vars PROVE ShapeInv'
    OBVIOUS
  <2>1. CASE Machine
    BY <2>1, MachineSteps, StepsKeepShape, ReturnKeepsShape
  <2>2. CASE Next /\ ~Machine
    BY <2>2, ParseKeeps, ParseMoreKeeps, ParseEndKeeps, ResetKeeps DEF Next
  <2>3. CASE UNCHANGED vars
    BY <2>3 DEF vars, ShapeInv, StackInv, PosInv, Exits, Passes, Depth, Top
  <2>4. QED
    BY <2>1, <2>2, <2>3
<1>2. QED
  BY <1>1, InitHolds, PTL DEF Spec

\* ... and the value each level waits for, where no comment is left open in one.
THEOREM WaitHolds == Spec /\ []~LeftOpen => []WaitInv
<1>1. ShapeInv /\ WaitInv /\ ~LeftOpen /\ [Next]_vars => WaitInv'
  <2> SUFFICES ASSUME ShapeInv, WaitInv, ~LeftOpen, [Next]_vars PROVE WaitInv'
    OBVIOUS
  <2>1. CASE Machine
    BY <2>1, MachineSteps, StepsKeepWait, ReturnKeepsWait
  <2>2. CASE Next /\ ~Machine
    BY <2>2, ParseKeeps, ParseMoreKeeps, ParseEndKeeps, ResetKeeps DEF Next
  <2>3. CASE UNCHANGED vars
    BY <2>3 DEF vars, WaitInv, StartsFresh, Top
  <2>4. QED
    BY <2>1, <2>2, <2>3
<1>2. QED
  BY <1>1, InitHolds, ShapeHolds, PTL DEF Spec

-----------------------------------------------------------------------------
(* What they imply.                                                        *)

\* Every level of the stack has its four fields and goes back to a state that
\* reads something, the position stays in the text and the two characters
\* after it, and no value is under way between calls.
THEOREM TypesKept == Spec => []TypeOK
<1>1. ShapeInv => TypeOK
  <2> SUFFICES ASSUME ShapeInv PROVE TypeOK
    OBVIOUS
  <2>1. /\ pos \in 0 .. Len(text) + 2 /\ end \in 0 .. Len(text) + 2
        /\ phase \in {"idle", "run", "out", "eof"}
        /\ phase = "idle" => obj = None
    BY DEF ShapeInv, PosInv
  <2>2. DOMAIN stack = 1 .. Len(stack) /\ stack # <<>>
    BY DEF ShapeInv, StackInv
  <2>3. \A level : Formed(level) => Shape(level)
    <3>1. ASSUME NEW level, Formed(level)
          PROVE  DOMAIN level = {"state", "saved", "cur", "name"}
      BY <3>1 DEF Formed
    <3>2. QED
      BY <3>1 DEF Formed, Shape, Saved
  <2>4. \A i \in DOMAIN stack : Shape(stack[i])
    BY <2>2, <2>3 DEF ShapeInv, StackInv, Placed
  <2>5. QED
    BY <2>1, <2>2, <2>4 DEF TypeOK, ShapeInv, ScanOK
<1>2. QED
  BY <1>1, ShapeHolds, PTL

\* json_tokener_parse_ex never writes beyond its stack of levels, not even
\* when it is used again after a comment left open.
THEOREM NeverOverrun == Spec => [](Len(stack) <= MaxDepth)
<1>1. ShapeInv => Len(stack) <= MaxDepth
  BY DEF ShapeInv, StackInv
<1>2. QED
  BY <1>1, ShapeHolds, PTL

\* A call that succeeds returns the value of the whole text, but for the one
\* way that the run tok_comment finds.
THEOREM WholeUnlessLeftOpen ==
    Spec => [][phase # "idle" /\ phase' = "idle" /\ err' = "success"
                  => Depth = 0 \/ LeftOpen]_vars
<1>1. ShapeInv /\ [Next]_vars
         => [phase # "idle" /\ phase' = "idle" /\ err' = "success"
                => Depth = 0 \/ LeftOpen]_vars
  <2> SUFFICES ASSUME ShapeInv, Next, phase # "idle", phase' = "idle", err' = "success"
               PROVE  Depth = 0 \/ LeftOpen
    OBVIOUS
  <2>1. Machine
    BY DEF Next, Parse, ParseMore, ParseEnd, Reset
  <2>2. Return
    BY <2>1, MachineSteps DEF Steps, Moves
  <2>3. QED
    BY <2>2, ReturnIsWhole
<1>2. QED
  BY <1>1, ShapeHolds, PTL DEF Spec

\* A value that completes a level is stored in the container that waits for it
\* before the call can end, and the stack of levels is never overrun: in every
\* behaviour in which no comment is left open within a value.
THEOREM ValuesHandedOver == Spec /\ []~LeftOpen => []HandedOver
<1>1. ShapeInv /\ WaitInv => HandedOver
  BY DEF ShapeInv, StackInv, WaitInv, HandedOver, Adds
<1>2. QED
  BY <1>1, ShapeHolds, WaitHolds, PTL

\* After a success the next text is parsed from the beginning at the lowest
\* level, though the number of levels is not reset: every success but that of
\* LeftOpen is met there.
THEOREM NextTextStartsFresh == Spec /\ []~LeftOpen => []StartsFresh
<1>1. WaitInv => StartsFresh
  BY DEF WaitInv
<1>2. QED
  BY <1>1, WaitHolds, PTL
=============================================================================
