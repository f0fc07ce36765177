----------------------------- MODULE ObjectIter -----------------------------
(***************************************************************************)
(* Loops over the fields of a JSON object while the loop body changes that *)
(* object.  Three loops exist: ag_json_object_foreach (agtype.h:135-140    *)
(* over the iterator of ag_json.c:206-252) and the loop over the pairs of  *)
(* json_object_iterator.c (json_object_iterator.h:91-106) read the         *)
(* successor of the current entry after the body,                          *)
(* json_object_object_foreach (json_object.h:342-351) reads it before.     *)
(* The body respects what json_object.h:330-333 asks of it: it adds no     *)
(* key, but it may delete or replace any; in the loop over pairs it leaves *)
(* the current pair alone (json_object_iterator.h:79-80).                  *)
(***************************************************************************)
EXTENDS LinkHash

CONSTANT SparesNext     \* the body of the json-c loop never deletes the entry
                        \* after the current one

ASSUME SparesNextAssumption == SparesNext \in BOOLEAN

VARIABLES style,        \* "ag", "json_c" or "pair": which of the loops runs
          loop,         \* "none", "body" (the body runs), "done"
          cursor,       \* cur_ / entry##key: the current entry
          after,        \* entry_next##key; unused by the other loops
          seen,         \* keys handed to the body so far, in order
          owed,         \* keys present at the start and not deleted since
          cut           \* the ag loop lost its place: see CutShort

iterVars == <<style, loop, cursor, after, seen, owed, cut>>
allVars  == <<vars, iterVars>>

KeysOf(tab) == {tab.k[s] : s \in Live(tab)}

IterInit ==
    /\ Init
    /\ style \in {"ag", "json_c", "pair"}
    /\ loop = "none" /\ cursor = NoEntry /\ after = NoEntry
    /\ seen = <<>> /\ owed = {} /\ cut = FALSE

\* Does the loop condition let the body run on entry e?  The ag macro also
\* stops at a field whose value is the NULL pointer.
Admits(tab, e) == e # NoEntry /\ (style = "ag" => tab.v[e] # Null)

\* Test the loop condition on entry e: run the body, or leave the loop.
Test(e) ==
    IF Admits(t, e)
    THEN /\ loop' = "body"
         /\ cursor' = e
         /\ after' = IF style = "json_c" THEN t.next[e] ELSE NoEntry
         /\ seen' = Append(seen, t.k[e])
         /\ UNCHANGED cut
    ELSE /\ loop' = "done"
         /\ cut' = (cut \/ e # NoEntry)
         /\ UNCHANGED <<cursor, after, seen>>

IterBeginAtTail ==                                               \* mutant
    /\ pc = "idle"
    /\ loop = "none"
    /\ owed' = KeysOf(t)
    /\ Test(t.tail)
    /\ UNCHANGED <<vars, style>>

\* ag_json_object_iter_begin, json_object_iter_begin
IterBegin ==
    /\ pc = "idle"
    /\ loop = "none"
    /\ owed' = KeysOf(t)
    /\ Test(t.head)
    /\ UNCHANGED <<vars, style>>

\* ag_json_object_iter_next and json_object_iter_next read the links of the
\* current entry, whatever the body has done to it.
IterNext ==
    /\ pc = "idle"
    /\ loop = "body"
    /\ Test(IF style = "json_c" THEN after ELSE t.next[cursor])
    /\ UNCHANGED <<vars, style, owed>>

\* May the body change the pair x?
Changeable(x) == style = "pair" => LookupEntry(t, x) # cursor

\* The body deletes the field x.
BodyDelete(x) ==
    /\ loop = "body"
    /\ Changeable(x)
    /\ SparesNext /\ style = "json_c" => LookupEntry(t, x) # after
    /\ Delete(x)
    /\ owed' = owed \ {x}
    /\ cut' = (cut \/ (style = "ag" /\ t.k[cursor] = x))
    /\ UNCHANGED <<style, loop, cursor, after, seen>>

\* The body replaces the value of the field x.
BodyReplace(x, val) ==
    /\ loop = "body"
    /\ Changeable(x)
    /\ AddReplace(x, val)
    /\ UNCHANGED iterVars

\* Before the loop the object is built by any operation of its table; no key
\* is added once the loop has begun.
Build == loop = "none" /\ Next /\ UNCHANGED iterVars

\* The loop has ended; the program goes on elsewhere.
Ended == loop = "done" /\ UNCHANGED allVars

IterStep ==
    \/ Build
    \/ IterBegin
    \/ IterNext
    \/ \E x \in Key : BodyDelete(x)
    \/ \E x \in Key, val \in Value : BodyReplace(x, val)
    \/ Ended

IterSpec == IterInit /\ [][IterStep]_allVars

-----------------------------------------------------------------------------
(* Properties.                                                             *)

\* "Deleting an existing key, or replacing an existing key with a new value
\* IS allowed" (json_object.h:332): the loop never hands the body an entry
\* that has been deleted.
BodyGetsLiveKeys == \A i \in DOMAIN seen : seen[i] \in Key

\* A key is handed out at most once: replacing values does not send the loop
\* back over entries it has passed.
NoKeyTwice == \A i, j \in DOMAIN seen : seen[i] = seen[j] => i = j

\* A loop that has not lost its place hands out every key that was there at
\* its start and has not been deleted.  The ag loop loses its place when the
\* body deletes the current key (the unlinked entry has no successor) and
\* stops at a NULL value; the other loops never do.
CompleteUnlessCut ==
    loop = "done" /\ ~cut => owed \subseteq {seen[i] : i \in DOMAIN seen}

\* Between two entries handed out no remaining one is skipped: what is owed
\* and unseen is exactly what the list holds after the current entry.
RestIsAhead ==
    loop = "body" /\ ~cut =>
        LET e == IF style = "json_c" THEN after ELSE t.next[cursor]
        IN  {f.k : f \in {Fields(t, e)[i] : i \in DOMAIN Fields(t, e)}}
                = owed \ {seen[i] : i \in DOMAIN seen}
=============================================================================
