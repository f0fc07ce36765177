------------------------------ MODULE AgGraph ------------------------------
(***************************************************************************)
(* Paths of a graph: their text is taken apart (tokenizer.c) into vertices *)
(* and edges (ag_graph.c), whose strings are made on demand and kept.      *)
(*                                                                         *)
(* A text is a sequence of characters; a pointer into it is a position,    *)
(* the NULL pointer and a NULL string are 0.  Properties are parsed by     *)
(* ag_json_from_string_ex, which JsonTokener models: here a text of        *)
(* properties parses as itself, and any other text fails.                  *)
(***************************************************************************)
EXTENDS Scalars, FiniteSetsExt

CONSTANTS Paths,        \* the paths a server sends
          BufLen        \* first buf_len of ag_path_new_ex (1024 in the code)

ASSUME SizeAssumption == BufLen \in Nat

VARIABLES sent,         \* the path whose text is read
          phase,        \* "none", "read", "ready", "join"
          tok,          \* the token of ag_path_new_ex
          buf,          \* its buffer: buf_len, bytes allocated, bytes written
          vertices, edges,      \* of the ag_path
          str,          \* str of the ag_path: a block, or 0
          heap,         \* the blocks that hold strings
          strs          \* local list of ag_path_to_string

vars == <<sent, phase, tok, buf, vertices, edges, str, heap, strs>>

Null    == 0
NoProps == <<"NULL">>

-----------------------------------------------------------------------------
(* What a server sends, as the tests have it.                              *)

GidText(g)    == numeral[g.oid] \o <<".">> \o numeral[g.id]
VertexText(v) == v.label \o <<"[">> \o GidText(v.vid) \o <<"]">> \o v.props
EdgeText(e)   ==
    e.label \o <<"[">> \o GidText(e.eid) \o <<"]", "[">>
            \o GidText(e.startVid) \o <<",">> \o GidText(e.endVid) \o <<"]">> \o e.props

PathText(p) ==
    FlattenSeq([k \in 1 .. 2 * Len(p.edges) + 1 |->
        (IF k = 1 THEN <<>> ELSE <<",">>)
            \o IF k % 2 = 1 THEN VertexText(p.vertices[(k + 1) \div 2])
               ELSE EdgeText(p.edges[k \div 2])])

\* Between two edges there is a vertex, and at both ends.
ASSUME PathsAssumption ==
    \A p \in Paths : Len(p.vertices) = Len(p.edges) + 1 /\ PathText(p) \in Seq(STRING)

PropsTexts == UNION {{x.props : x \in Range(p.vertices) \cup Range(p.edges)} : p \in Paths}

-----------------------------------------------------------------------------
(* The tokenizer, on a text s that ends at eof = Len(s) + 1.               *)

FirstOf(S)          == IF S = {} THEN Null ELSE Min(S)
TokStrchr(s, p, ch) == FirstOf({q \in p .. Len(s) : s[q] = ch})

\* depth at position q when counting starts at p.
Nesting(s, p, q) ==
    Cardinality({r \in p .. q - 1 : s[r] = "{"})
        - Cardinality({r \in p .. q - 1 : s[r] = "}"})

GetPropsOfFirst(s, p) == TokStrchr(s, p, "}")                    \* mutant

GetProps(s, p) ==
    FirstOf({q \in p .. Len(s) : s[q] = "}" /\ Nesting(s, p, q) = 1})

TokenInit     == [start |-> 1, end |-> Null]
IsEnd(s, t)   == t.end = Len(s) + 1
Token(s, t)   == SubSeq(s, t.start, t.end - 1)

GetToken(s, t) ==
    LET start == IF t.end # Null THEN t.end ELSE t.start
        end   == IF s[start] = "[" THEN TokStrchr(s, start, "]") + 1
                 ELSE IF s[start] = "{" THEN GetProps(s, start) + 1
                 ELSE TokStrchr(s, start, "[")
    IN  IF IsEnd(s, t) THEN t ELSE [start |-> start, end |-> end]

\* in_gid at position q: outside properties an id began, and no "]" came since.
InGid(s, p, q) ==
    \E r \in p .. q - 1 : /\ s[r] = "[" /\ Nesting(s, p, r) = 0
                          /\ \A i \in r + 1 .. q - 1 : s[i] # "]"

\* The next "," outside properties and ids ends a vertex or an edge.
GetPathToken(s, t) ==
    LET start == IF t.end # Null THEN t.end + 1 ELSE t.start
        stop  == {q \in start .. Len(s) :
                    /\ s[q] = "," /\ Nesting(s, start, q) = 0
                    /\ ~InGid(s, start, q)}
    IN  [start |-> start, end |-> IF stop = {} THEN Len(s) + 1 ELSE Min(stop)]

-----------------------------------------------------------------------------
(* Vertices and edges.                                                     *)

\* The digits strtol reads at p.
Digits(s, p) ==
    LET stop == FirstOf({q \in p .. Len(s) : s[q] \notin Range(Figures)})
    IN  SubSeq(s, p, IF stop = Null THEN Len(s) ELSE stop - 1)

\* A number that strtol reads as a long, stored in an int.
ToInt(n) == Wrapped(Within(n, WideMin, WideMax), NarrowLimit)

SetGid(s, p) ==
    LET oid == Digits(s, p + 1)
    IN  [oid |-> ToInt(Value(oid)),
         id  |-> ToInt(Value(Digits(s, p + Len(oid) + 2)))]

MakeAgJson(props) == IF props \in PropsTexts THEN props ELSE NoProps

VertexNew(s) ==
    LET t1 == GetToken(s, TokenInit)
        t2 == GetToken(s, t1)
        t3 == GetToken(s, t2)
    IN  [label |-> Token(s, t1), vid |-> SetGid(s, t2.start),
         props |-> MakeAgJson(Token(s, t3)), str |-> Null]

EdgeNew(s) ==
    LET t1 == GetToken(s, TokenInit)
        t2 == GetToken(s, t1)
        t3 == GetToken(s, t2)
        t4 == GetToken(s, t3)
    IN  [label |-> Token(s, t1), eid |-> SetGid(s, t2.start),
         startVid |-> SetGid(s, t3.start),
         endVid |-> SetGid(s, TokStrchr(s, t3.start, ",")),
         props |-> MakeAgJson(Token(s, t4)), str |-> Null]

-----------------------------------------------------------------------------
(* ag_path_new_ex, one turn of its loop at a time.                         *)

text   == PathText(sent)
NoPath == [vertices |-> <<>>, edges |-> <<>>]

Init ==
    /\ sent = NoPath
    /\ phase = "none"
    /\ tok = TokenInit
    /\ buf = [len |-> 0, size |-> 0, used |-> 0]
    /\ vertices = <<>> /\ edges = <<>> /\ str = Null
    /\ heap = {} /\ strs = <<>>

PathNew ==
    /\ phase = "none"
    /\ \E p \in Paths : sent' = p
    /\ phase' = "read"
    /\ tok' = TokenInit
    /\ buf' = [len |-> BufLen, size |-> BufLen + 1, used |-> 0]
    /\ vertices' = <<>> /\ edges' = <<>> /\ str' = Null
    /\ UNCHANGED <<heap, strs>>

\* realloc for a token of n characters, then its copy with a 0 at its end.
CopiedUnended(n) ==                                              \* mutant
    IF n > buf.len THEN [len |-> n, size |-> n, used |-> n + 1]
    ELSE [buf EXCEPT !.used = n + 1]

Copied(n) ==
    IF n > buf.len THEN [len |-> n, size |-> n + 1, used |-> n + 1]
    ELSE [buf EXCEPT !.used = n + 1]

PathToken ==
    LET t == GetPathToken(text, tok)
        s == Token(text, t)
    IN  /\ phase = "read"
        /\ ~IsEnd(text, tok)
        /\ tok' = t
        /\ buf' = Copied(Len(s))
        /\ IF Len(vertices) = Len(edges)
           THEN vertices' = Append(vertices, VertexNew(s)) /\ UNCHANGED edges
           ELSE edges' = Append(edges, EdgeNew(s)) /\ UNCHANGED vertices
        /\ UNCHANGED <<sent, phase, str, heap, strs>>

PathEnd ==
    /\ phase = "read"
    /\ IsEnd(text, tok)
    /\ phase' = "ready"
    /\ buf' = [len |-> 0, size |-> 0, used |-> 0]
    /\ UNCHANGED <<sent, tok, vertices, edges, str, heap, strs>>

-----------------------------------------------------------------------------
(* Strings.  free(old), then malloc: the block may be the one just freed.  *)

NewBlock(h) == CHOOSE b \in 1 .. Cardinality(h) + 1 : b \notin h

\* ag_vertex_to_string or ag_edge_to_string of element k of a list.
MakeStr(list, k) ==
    LET h == heap \ {list[k].str}
        b == NewBlock(h)
    IN  <<[list EXCEPT ![k] = [list[k] EXCEPT !.str = b]], h \cup {b}, b>>

VertexToString ==
    /\ phase = "ready"
    /\ \E k \in DOMAIN vertices : vertices' = MakeStr(vertices, k)[1]
                                  /\ heap' = MakeStr(vertices, k)[2]
    /\ UNCHANGED <<sent, phase, tok, buf, edges, str, strs>>

EdgeToString ==
    /\ phase = "ready"
    /\ \E k \in DOMAIN edges : edges' = MakeStr(edges, k)[1]
                               /\ heap' = MakeStr(edges, k)[2]
    /\ UNCHANGED <<sent, phase, tok, buf, vertices, str, strs>>

PathToString ==
    /\ phase = "ready"
    /\ phase' = "join"
    /\ heap' = heap \ {str}
    /\ strs' = <<>>
    /\ UNCHANGED <<sent, tok, buf, vertices, edges, str>>

\* The string of the next vertex or edge.
PathToStringPart ==
    LET k == Len(strs) \div 2 + 1
        v == MakeStr(vertices, k)
        e == MakeStr(edges, k)
    IN  /\ phase = "join"
        /\ Len(strs) <= 2 * Len(edges)
        /\ IF Len(strs) % 2 = 0
           THEN vertices' = v[1] /\ heap' = v[2] /\ strs' = Append(strs, v[3])
                /\ UNCHANGED edges
           ELSE edges' = e[1] /\ heap' = e[2] /\ strs' = Append(strs, e[3])
                /\ UNCHANGED vertices
        /\ UNCHANGED <<sent, phase, tok, buf, str>>

PathToStringEndFrees ==                                          \* mutant
    /\ phase = "join"
    /\ Len(strs) > 2 * Len(edges)
    /\ phase' = "ready"
    /\ str' = NewBlock(heap)
    /\ heap' = (heap \ Range(strs)) \cup {str'}
    /\ strs' = <<>>
    /\ UNCHANGED <<sent, tok, buf, vertices, edges>>

\* The parts joined; the list is freed with no_free, the parts stay.
PathToStringEnd ==
    /\ phase = "join"
    /\ Len(strs) > 2 * Len(edges)
    /\ phase' = "ready"
    /\ str' = NewBlock(heap)
    /\ heap' = heap \cup {str'}
    /\ strs' = <<>>
    /\ UNCHANGED <<sent, tok, buf, vertices, edges>>

PathFree ==
    /\ phase = "ready"
    /\ phase' = "none"
    /\ heap' = heap \ ({str} \cup {x.str : x \in Range(vertices) \cup Range(edges)})
    /\ vertices' = <<>> /\ edges' = <<>> /\ str' = Null
    /\ tok' = TokenInit /\ sent' = NoPath
    /\ UNCHANGED <<buf, strs>>

Next ==
    \/ PathNew \/ PathToken \/ PathEnd
    \/ VertexToString \/ EdgeToString
    \/ PathToString \/ PathToStringPart \/ PathToStringEnd
    \/ PathFree

Spec == Init /\ [][Next]_vars

-----------------------------------------------------------------------------
(* Properties.                                                             *)

Parts(list) == [k \in DOMAIN list |-> [list[k] EXCEPT !.str = Null]]

\* "vertex0,edge0,vertex1,edge1,vertex2": what has been read of a path is
\* what was sent, part by part, and all of it in the end.
PathKept ==
    phase # "none" =>
        /\ Len(vertices) - Len(edges) \in {0, 1}
        /\ IsPrefix(Parts(vertices), sent.vertices)
        /\ IsPrefix(Parts(edges), sent.edges)
        /\ phase # "read" => Len(vertices) = Len(sent.vertices)
                             /\ Len(edges) = Len(sent.edges)

\* Which paths have a text that can be taken apart: ids are ints, no label has
\* a character that means something, and no brace of the properties but their
\* last closes the first.
IntGids    == [oid : 0 .. NarrowLimit - 1, id : 0 .. NarrowLimit - 1]
LabelTexts == {l \in Seq(STRING) :
                 l # <<>> /\ \A i \in DOMAIN l : l[i] \notin {"[", "{", "}", ","}}
Balanced(x) ==
    /\ x # <<>> /\ x[1] = "{"
    /\ \A q \in 2 .. Len(x) : Nesting(x, 1, q) >= 1
    /\ Nesting(x, 1, Len(x) + 1) = 0
ObjectTexts == {x \in Seq(STRING) : Balanced(x)}

WellFormed(p) ==
    /\ p.vertices \in Seq([label : LabelTexts, vid : IntGids, props : ObjectTexts,
                           str : {Null}])
    /\ p.edges \in Seq([label : LabelTexts, eid : IntGids, startVid : IntGids,
                        endVid : IntGids, props : ObjectTexts, str : {Null}])

\* No part of a path, with the 0 that ends it, is longer than the buffer.
BufferHolds == buf.used <= buf.size

\* The strings a list keeps, and the one of the path itself, which is not its
\* own while it is made anew.
Strs(list) == {list[k].str : k \in DOMAIN list} \ {Null}
PathStr    == IF phase = "join" THEN {} ELSE {str} \ {Null}

Apart(list) ==
    \A j, k \in DOMAIN list : j # k /\ list[j].str = list[k].str => list[j].str = Null

\* Every string kept has one owner, which has not been freed under it, and
\* none is lost; those being joined are the ones their parts keep.
StringsOwned ==
    /\ heap = Strs(vertices) \cup Strs(edges) \cup PathStr
    /\ Apart(vertices) /\ Apart(edges)
    /\ Strs(vertices) \cap Strs(edges) = {}
    /\ PathStr \cap (Strs(vertices) \cup Strs(edges)) = {}
    /\ \A k \in DOMAIN strs :
           strs[k] = IF k % 2 = 1 THEN vertices[(k + 1) \div 2].str
                     ELSE edges[k \div 2].str
=============================================================================
