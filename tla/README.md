# Verification of agens-graph-libagtype

This directory holds TLA+ models of libagtype, the C client library for the
graph types of AgensGraph, with the json-c 0.12.1 it carries. The models are
checked by TLC on small instances; theorems about most of them hold for every
value of their constants and are proved with TLAPS. Paths below are relative to
the root of the repository; `json-c` is short for `json-c-0.12.1`.

## The system

A client reads a column of type `vertex`, `edge`, `path` or `jsonb` as text.
`ag_odbc.c` fetches the text, `tokenizer.c` cuts it up, `ag_graph.c` builds the
structures, and the properties inside are parsed by `json-c/json_tokener.c` into
values of `json-c/json_object.c`, which keep their fields in
`json-c/linkhash.c`. `ag_json.c` is a facade over the last three. A parameter
goes the other way: a value is printed by `json_object.c` into the buffer of
`json-c/printbuf.c`, and the driver reads it there.

The library keeps no persistent data and takes no locks. Values, tables and
parsers belong to one thread; the one thing threads share is the seed of the
hash (`linkhash.c:387-423`), which is drawn with a compare and swap. What is hard
here is long histories of calls, pointers kept over a call that frees, input
that arrives in pieces, limits, and the first calls of two threads.

| Component | State | Operations | Hard because | Right when |
|---|---|---|---|---|
| Hash table (`linkhash.c`) | slots with key, value, links; head, tail, count, size | insert with resize, lookup, delete | tombstones, wrap-around, colliding keys, the resize inserts into a table that could itself resize | it is an ordered map; probes end; the list is linked; the count is right |
| Field loops (`ag_json.c`, `agtype.h`, `json_object.h`) | current entry, next entry | begin, next, body | the body changes the table the loop walks | no freed entry is handed out, no field is missed or repeated |
| Reference counts (`json_object.c`, `arraylist.c`) | counts, members, what the client owns | new, get, put, store, replace, delete | sharing, recursive release, replace releases before it stores | the count is the number of references; nothing is freed in use, twice or never |
| Parser (`json_tokener.c`) | a stack of levels, a buffer, counters, some locals | parse a chunk, reset | chunks end anywhere, levels hand values down through a local, the object is reused, half the states re-read a character | it returns what the text means, refuses no valid text, always returns |
| Tokenizer (`tokenizer.c`) | start, end, eof | next token, next part of a path | braces, brackets and commas mean different things by position | the parts are the parts that were sent |
| Vertices, edges, paths (`ag_graph.c`) | labels, ids, properties, kept strings | new, to string, free | a growing buffer; strings freed when asked for again, also by the path | parts kept, buffer large enough, strings owned once |
| ODBC binding (`ag_odbc.c`) | bindings, indicator, target | describe, bind parameter, bind column, get data | partial failure, deferred pointers, NULL, truncation | a success means an object of this row; parameters arrive as bound |
| Serialisation (`json_object.c`) | none | one serialiser for each type | escapes, separators and indentation by flags, written piece by piece over an older text | parsing what was printed gives the value again |
| Print buffer (`printbuf.c`) | memory, size, position | append, fill, reset, grow | three ways to write test the room in three ways | nothing is written outside; the text is ended |
| Scalars (`json_object.c`, `json_util.c`) | which `sscanf` it has | read, convert | 64 and 32 bit limits, two clamps, a repair for a broken `sscanf` | the nearest integer that fits |
| Array list (`arraylist.c`) | slots, length, size | add, put, get, sort, free | growth by two rules; putting releases what the slot holds | it is a sequence, and releases what it drops |
| Object iterator (`json_object_iterator.c`) | entry | begin, next, equal | as the ag loop | as the ag loop |
| Seed (`random_seed.c`, `lh_char_hash`) | one static int | draw once | threads at first use; a source may say -1 or fail | one seed for all hashes; every call returns |
| Logging, version, build, tests | - | - | - | not modelled |

The hazards, each with its line and the properties that would show it, are in
`PROJECT.json`.

## Modules

### OrderedMap, LinkHash, MCLinkHash, LinkHashProofs

`OrderedMap` is what a JSON object promises: a sequence of fields with distinct
keys; adding a key appends it or replaces its value in place. `LinkHash` is
`linkhash.c` as `json_object.c` drives it. A table is a record of functions from
slots (`k`, `v`, `next`, `prev`) with `count`, `size`, `head`, `tail`; an entry
pointer is the number of its slot. `AddReplace`, `AddNew` and `Delete` are the
calls of `json_object_object_add` and `_del`. An insert that finds the table
loaded is several steps: `ResizeBegin` makes the new table, `ResizeMove` inserts
the entry under the cursor, `ResizeEnd` takes the slots over (but not the count,
as in the code) and `AddAfterResize` places the key. So the states inside a
resize are visible. The hash is any function from keys to `HashValue`, chosen at
the start, as the seed is.

Run `linkhash`: 4 keys, one value and NULL, a table of 2 slots that may grow to
8, and every hash function into {4, 7}: in the three sizes 4
starts at slots 0, 0 and 4, and 7 always at the last slot, from where a probe
wraps around. This is the smallest instance with a run of tombstones around the end of
the array, a full probe, and two resizes one after the other; larger tables
repeat the same cases. Keys are interchangeable (every hash function is an
initial state), so they are a symmetry set.
The run checks the invariants and that LinkHash implements OrderedMap
(`RefinesOrderedMap`, where the fields are the list from `head`).

### ObjectIter, MCObjectIter, LinkHashProofs

The three loops over the fields of an object, on the table of LinkHash. `style`
says which one the program runs: `ag_json_object_foreach`, which reads the
successor after the body; `json_object_object_foreach`, which reads it before; or
the loop over pairs that `json_object_iterator.h:91-106` shows, which reads it
after. The body may replace or delete fields and adds none, as
`json_object.h:330-333` asks; in the loop over pairs it leaves the current pair
alone (`json_object_iterator.h:79-80`). The object is built by any operations,
with four keys and at most two resizes, from two slots to eight: so a loop walks
tables with tombstones that were moved twice.

* `iter`: the ag loop hands out live fields, each once, and misses none unless
  the body deletes the current key (its links are cleared, the loop ends) or a
  field holds NULL (the macro stops there); `cut` records these two cases. The
  json-c loop is never cut, but here its body spares the next entry
  (`SparesNext`).
* `iter_doc`: the same when the body need not. The header allows deleting any
  key, but then the json-c loop continues in a tombstone: a finding.

### JsonRefs, MCJsonRefs, JsonRefsProofs

Counts, members and what the client owns, over addresses that are reused.
`json_object_put` recurses; here `dying` is the stack of values being deleted
and each member is a step (`PutMember`, `Free`). `Replace` puts the old value
and `ReplaceEnd` stores the new one, in that order, as
`json_object.c:410-413` does. The client obeys the header: it gives away only
references it owns, uses only values it can reach, and builds no cycle (a cycle
would leak, by design of reference counts).

* `refs`: two objects, an array and a static value (the NULL of JSON), two slots
  each, up to two references owned. Sharing needs two holders and a chain needs
  three values, so every shape up to a diamond occurs. The run also checks that
  every release ends (`CallsReturn`), for which no symmetry is used.

### JsonTokener, JsonText, JsonTokenerProofs, MCJsonTokener

`JsonTokener` is the machine of `json_tokener_parse_ex`, one action for one case
of its switch on one character. `stack` is `tok->stack`; `scan` is what a token
in progress has in the parser (`pb`, `st_pos`, `quote_char`, `is_double`,
`ucs_char`) and in locals of the call (`hi`, the pending surrogate; `case_len`),
which `Call` clears; `obj` is the local that carries a value to the level below.
`goto redo_char` is a step that leaves `pos` alone. Where the code looks ahead
for `\u` it is one step, with the case that the chunk ends right there. `Return`
makes every level fresh on success but leaves their number alone, as lines
867-876 do; only `Reset` goes back to one level.

A surrogate pair is combined first and then tested with the mask of a single
surrogate (`IS_HIGH_SURROGATE`, `json_tokener.c:101-102`), so some pairs are
taken for a lone surrogate: those for U+1D800 to U+1DBFF, and every 64K from there, for a
high one, and the 1024 code points behind each for a low one. Only the six low bits
of the high half decide which, so `AsHigh` and `AsLow` are the high halves of such
pairs, and `LooksHigh`, `LooksLow` and `Decoded` follow the code: a pair taken for a low
surrogate gives one replacement character; one taken for a high surrogate gives one
too, or waits for another escape with the bits it has (`Held`).

The client parses a text in one chunk (`Whole`) or in any chunks (`Cut`), and ends it
as `ag_json_from_string_ex` does, with `" "` and the 0 byte; the texts of
`Reused` it parses one after another, giving a text up at any time.

`JsonText` is the reference: it generates, by shape and not by machine, every
text up to a length from given parts, each with its value and depth
(`Documents`). `ReturnsMeaning` says a successful call returns what the
characters consumed stand for, where they hold no pair of those above
(`Mistaken`); `AcceptsValid` says a valid text is accepted, or
refused for depth exactly when it is too deep. The instances feed every valid
text, every prefix, and every prefix followed by a wrong character.

The language is taken in pieces (`Grammars`), each with few kinds of text, so
that texts stay short.

| Run | Texts | What it shows |
|---|---|---|
| `tok` | arrays and objects up to 7 characters and 3 levels, in any chunks (`Nested`); up to 8 in one chunk (`Longer`) | nesting, the depth limit, values handed down (`HandedOver`) |
| | strings with escapes and surrogates, pairs of all three kinds among them (`Strings`); objects with equal names and an escaped 0 in a name (`Names`); digits, signs, points, infinities (`Signs`): each in one chunk | decoding; the last value wins, in place; which texts are numbers |
| | literals, comments, an escape, in any chunks (`Words`) | resumption inside a token |
| | 13 texts in any order, in any chunks, given up anywhere (`Reused`) | nothing of an old text remains: a success leaves one fresh level (`StartsFresh`) |
| | all of these | every call returns (`CallsReturn`) |
| `tok_comment` | an open comment in an array | finding: success with an inner value |
| `tok_surrogate` | a pair in two chunks | finding: two replacement characters |

Literals are cut to two letters and `\u` escapes to two digits: the code compares
and counts letters one by one, so two positions (first, last) and one past the
end are all it can tell apart. A letter stands for both cases. Three levels are
enough: the outermost, one with a level on each side, and the deepest.

`tok` leaves out exactly what is seen to go wrong: comments left open and
surrogate pairs in chunks (the two findings), the meaning of the mistaken pairs,
and `-Infinity` in two places.

A comment left open has a second effect. The call succeeds at a level above the
lowest, and since `tok->depth` is not reset the next text begins at that level:
its value is handed to a level that reads blanks, and lost. `json_tokener_reset`
in between avoids it. The texts of `tok` have every comment closed, so that there
`StartsFresh` and `HandedOver` say that every success is met at the lowest level;
the theorems state them for every behaviour without `LeftOpen`, the state in
which a call succeeds within a value.

After a literal or an escape it is refused, because the state `number` enters
`inf` without resetting `st_pos` (`json_tokener.c:683`), and cut after its sign it
is refused too, because `case_len`, which tells a lone sign, is a local
(line 681). `ChangeLog:42` says only that Infinity is supported. Hence numbers are
given in one chunk, and `-Infinity` where nothing was counted before. Also seen
and left as the code has it, because nothing says otherwise: a comment that ends
in `**/` is not closed by it, a name is cut at an escaped 0, `1-2` is read as 1,
and text after the value is ignored.

### JsonPrint, PrintBuf, ArrayList, ElementList, Scalars, MCJsonPrint, JsonPrintProofs

The way of a value out and back in. `PrintBuf` is the buffer: `size` allocated,
the characters since the last reset, and whether there is a 0 behind them
(filling writes none). `ArrayList` is the array of pointers behind a JSON array,
with the slots beyond its length; `released` is what the last call gave to
`free_fn`. `ElementList` is what it promises, a sequence with releases.
`Scalars` is the reading of integers, with `sscanf` external and of two kinds: one
that saturates, and one that wraps, for which `json_parse_int64` has a workaround.
The widths are given by the least numbers too large, `WideLimit` and `NarrowLimit`.

`JsonPrint` composes them with JsonTokener. The client edits an array
(`EditArray`) and prints it, or another value (`ToJsonString`); each call a
serialiser makes to the print buffer is a step (`Write`), in the order of the
code; then the machine of JsonTokener reads the text back (`ReadBack`, `Read`),
up to the first 0 in the memory. After that the client goes on with the same
buffer. `Calls` holds the serialisers: one per type, with the flags SPACED,
PRETTY and NOZERO; a value within another is found by the way to it, and `level` is
the length of the way. `ReadNumeral` reads a server's integer.

* `print`: an array of up to 3 of an integer, an object and NULL, edited between
  prints, and 23 lone values: every escape (alone, next to another, next to
  plain text, in names), a string longer than one growth, nested empty and
  filled containers, integers at the limits, doubles with a decimal comma. Four
  sets of flags. The buffer has 6 bytes and a slack of 2, so most texts grow it by
  either rule; the array starts with 1 slot, so it grows by either rule. Integers
  have 6 and 4 bits (limits 32 and 8) and texts up to three digits and a sign: the limits 31, -32,
  7, -8, the first values beyond, and values beyond twice the wider range, also with
  something behind them.
  `RoundTrip` takes an integer in a text for its number: a whole double, which
  `%.17g` prints without a point, comes back as an integer and is held equal.

Seen: under NOZERO the last digit that is no 0 is looked for in the whole text,
so the exponent of `1.5e+20` loses its 0 (`json_object.c:628-637`, against
`json_object.h:55`); nothing in libagtype sets the flag, and the run has no such
double. On a library that wraps only, the workaround misreads two kinds of text
(`Misread`, which `GetIntIsNearest` leaves out): for a negative multiple of 2^64
`json_util.c:224` loses the sign, and of a zero with something behind it, as `0-2`
or the string `0 m`, `json_util.c:222` skips the 0 as well, so that it is taken for
too large.
`printbuf.c:82` adds sizes in an `int`, and the results of `sprintbuf` and
`printbuf_memappend` are ignored: texts of 2 GB are out of the model.
`json_object.h:550-570` promises conversions of strings by `json_object_get_double`
that belong to doubles, which are not modelled. `ag_json_new_int` and
`ag_json_get_int` narrow to 32 bits (`ag_json.c:92`).

### Seed, MCSeed

`lh_char_hash` in several threads: the test of the static variable, each turn
of the drawing loop, the compare and swap, and the hash are steps. The source is
the device, which may say anything or fail (then the process exits), or the
time, which passes by itself (`Tick`).

* `seed`: three threads, so that two can race while one has hashed already; an
  int of two bits, so that a time's seed is -1 for one second of four. `OneSeed`
  says all hashes agree; `CallsReturn` that every call returns or the process
  ends.

### AgGraph, MCAgGraph, AgGraphProofs

A server's text of a path is taken apart and its strings are asked for.
`GetToken`, `GetPathToken` and `GetProps` are the functions of `tokenizer.c` over
positions; `PathToken` is a turn of the loop in `ag_path_new_ex`, with the
growing buffer; the `...ToString...` actions free and allocate strings as
`ag_graph.c` does, the path part by part. Numerals are those of `Scalars`: `strtol`
stops at the limits of a long, and an id keeps of it what an int does.
The texts of properties parse as themselves, since parsing is the business of
JsonTokener, and anything else fails.

* `graph`: every path of at most one edge over two labels, two ids (one the
  largest int) and two properties (one nested, with brackets and commas), and
  paths of two edges. The buffer starts smaller than most parts, so it grows
  once or twice. Strings are asked for in any order, again and again. Two edges
  are the shortest path with a vertex between two edges; another path begins
  after `PathFree`, so a tokenizer or a string left over would show.
* `graph_braces`: a string in the properties holds `}`: a finding.

Seen and not checked, for want of a statement to hold them to: ids are cut to an
`int` (`ag_graph.c:17`), and labels are printed into 256 or 1024 bytes without a
length (`ag_graph.c:66`).

### AgOdbc, MCAgOdbc, AgOdbcProofs

The four calls of `ag_odbc.c` for one column and any parameters, against a driver
of which every call may succeed, warn or fail. The driver is external, and modelled
from what the code relies on: pointers given to `SQLBindParameter` are read at
`Execute`; `SQLGetData` delivers a long text in pieces (`got`) and then
`SQL_NO_DATA`; setting the scale of a bound column unbinds it, which is why
`AG_SQLBindCol` sets the pointer once more. `printed` is the print buffer of a JSON
value: what a parameter that was bound sends is whatever the buffer holds at the
execution. The indicator of a parameter belongs to the client; `AG_SQLBindParameter`
sets it for a NULL value only, so a client that binds a value after NULL must set it
back (`SetIndicator`). The client may change a value and bind it again, to any
parameter, while an older text of it waits, and ask for a column any number of
times; after a binding that failed it binds again or unbinds before it fetches.

`SentAsBound` says when a parameter is sent as it was when it was bound: when no
value of another text was printed into its buffer since, which the history variable
`kept` records, and when its indicator says a text follows, or NULL was bound. What happens
otherwise is not hidden: with a value changed and bound again, the older parameter
sends the newer text, and with a stale indicator it sends NULL. Neither has a
statement in the code or its comments to hold it to.

`TargetOfThisRow` says a success of `AG_SQLGetData` leaves an object of this row and type
unless the value was NULL, and made of the whole text unless the client chose a
buffer itself that is too small: when it calls again after the truncation, the code
decodes the rest alone.

* `odbc`: two parameters, two JSON values of two texts, a column of one of three
  types and up to two characters, two rows in each result, any number of
  executions. So a parameter can share a buffer with another, be NULL after it was
  not, and an object of one row or type can be met in the next. To keep the run
  small, the column is bound and read only while no value is printed (`Apart`): the two
  halves share the statement but no variable that either reads, and the theorems have
  no such bound.

Seen and not checked: the example at `ag_odbc.c:13-34` loops while `SQLFetch` is
not 0, but `SQL_SUCCESS` is 0; it frees the last vertex only; and the comment
"decoding error" at line 213 holds for properties alone, since `ag_vertex_new`,
`ag_edge_new` and `ag_path_new` never return NULL.

## Fairness

A call, once made, runs to its end; nothing else can run in between in its
thread. So `LiveSpec` of JsonTokener and JsonRefs assumes weak fairness of the
steps inside a call and nothing about the client. `LiveSpec` of Seed assumes weak
fairness of each thread inside a call (threads are scheduled; no lock is taken),
of the passing of time, and strong fairness of drawing something else than -1: a
random source that says -1 for ever is outside what a random source is, and the
time, multiplied by an odd number, says -1 for one second of 2^32 only. The other
properties are safety and assume nothing. Deadlock is not checked where the
client may simply stop, or where a bound ends what it does (`MaxSize`, `MaxOwn`,
one text when it is not of `Reused`).

## Proofs

Every theorem rests on the named ASSUMEs of its module only, unless said
otherwise, and holds for every value of the constants: any set of keys, any hash
function, any number of threads, parameters, levels or parts. Bounds such as
`MaxSize` and `MaxLength` may have any value.

**LinkHashProofs**: `TypeCorrect`, `LookupCorrect`, `ListCorrect`, `CountCorrect`,
`ResizeOnce`, `ProbeTerminates`. None is inductive alone. `IInv` says there is a
walk, a sequence of slots without repetition whose consecutive members are
linked both ways, from head to tail, through exactly the live slots (`Walks`), as
long as the count; that on the way from the home slot of a stored key to its slot
no slot was never used (so a probe meets the key before an empty slot); that keys
are stored once; and, during a resize, that the new table holds the entries
before the cursor and its load is below the factor. The walk is stated by
existence. Each action has one step for the table it builds (`Place`,
`DeleteEntry`, `SetValue`) in a lemma of its own, which also says what becomes of
the walk (`Grown`, `Shrunk`).

`ResizeKeepsOrder` and `ImplementsOrderedMap` are about `Fields`, the list as the
recursion along the links gives it. `WalkIsWalk` shows that this recursion yields the
walk from any of its places on: the function that yields it solves the recursion,
and two solutions would differ at a least number of hops (`LeastNat`). From then on
both theorems are about sequences of known length: the part moved and the rest
make the whole; `Place` is an `Append`, `DeleteEntry` a `RemoveAt`, `SetValue` an
`EXCEPT`, and the exchange of tables changes nothing.

**LinkHashProofs**, of the loops: `LiveKeys`, `OnceEach`, `NothingLeftOut`, `OwedIsAhead`, for a
body that deletes and replaces in any order. The invariant names the place `q` in
the walk at which the loop goes on (`Position`): the entry after the cursor for two
loops, the entry already read for the json-c loop, and past the end when the entry
at hand was deleted, since a deleted entry has no successor (`Lost`). What is at `q`
or later has not been handed out and is what the loop owes (`Ahead`). A delete
moves the place (`PlaceAfter`). Three of the theorems hold under `Spared`, which the
other two loops satisfy always: without it they are false, as `iter_doc` shows.

**JsonRefsProofs**: `TypesKept`, `CountsExact`, `NothingDangles`,
`NothingDeletedTwice`, `NothingLeaks`. Counts alone are not inductive: a
replacement stores its value after arbitrary deletions, so its container must be
known to survive them. `IInv` adds that what is referenced, or holds anything, is
allocated; that the pending container is still reached by the client and
storing closes no cycle (`PendingOK`); and that every set of values has a member
no value of the set holds (`Acyclic`). The latter gives `NothingLeaks`: were
anything left allocated with nothing owned, the values left would hold one
another. Lemmas count holders before and after one slot changes.

**SupportProofs**, of PrintBuf, ArrayList and Seed. `WritesFit`: what
`printbuf_extend` returns is enough for what it is asked for, so each of the three
ways to write keeps `InBounds`, for any initial size and slack. `FreeSlotsAreNull`,
and `ListImplementsSequence`: the initial array is the empty sequence, and each step
of ArrayList is a step of ElementList under the mapping `elems <- Elements`,
releases included. The invariant is `BeyondIsNull` with the shape of the record;
without it a put beyond the end could release something no sequence holds.
`HashesAgree` and `SeedStays`: the invariant adds what each thread knows: in front
of the swap its own seed is not -1, and in front of the hash the static variable is
set.

**ScalarsProofs**: `IntIsNearest`, the claim of `GetIntIsNearest` for texts of any
length and any two widths of which the narrow one is not the wider. The two clamps
commute because of that; the work is in the workaround, which prints the number
again and compares digits. `NumeralIsRead` says that a numeral has the value it was
written for, `NumeralOfValue` that digits without a 0 in front are the numeral of
their value, `ZerosAddNothing` that skipped zeros do not count. So the comparison
tells whether the number is the one in the text (`PrintingTells`), whatever `sscanf`
made of it, and where it is not the text is beyond a limit, and its sign says which.

**JsonPrintProofs**, which composes them with the parser and the print buffer.
Recursion over a value is written as a function of the way to a place in it, so the
module can be proved about; what is proved is about values without members.

`ServerIntIsNearest` is `GetIntIsNearest` itself: any text that begins with an
integer, whatever its length, whatever follows. The invariant says where the parser
stands: ahead of the number, within it with a number state and all digits so far, or
behind it with the integer made of them; and that the tokener is at rest
between reads. `NumeralsAssumption` says what a text with an integer is: the digits
are not the beginning of a double, or the text goes on with anything else.

`ScalarRoundTrip` is `RoundTrip` for integers of any width and strings of any length.
Three things are in its way, each with a relation of its own:

* the calls spell a text (`Spells`, the least relation between a sequence of calls
  and the characters they write). For a string `Laid` gives the text and the place
  in it of every character: as it is, two characters for an escape with a letter,
  six for a code unit. `SpellsFirst` takes the first call off;
* while the serialiser is at work, what is in the buffer and what is still to be
  written make that text (`Printing`), however often the buffer grows, and with a 0
  behind it in the end, so the parser reads this text and no more;
* while the parser is at work, its state and what it has collected are those of its
  place in the text (`IntRead`, `StrRead`): between characters, behind a backslash, or
  within the four digits of a code unit, of which no surrogate is one.

`ScalarInv` joins them over all steps of `PrintNext`. Assumed: `LoneAssumption` and
`UnitsAssumption` (integers are in the width of the code, strings consist of
characters C strings can hold and of code units without an escape of their own and no
surrogates), `NullAssumption` (NULL is no parsed value), `LimitsAssumption`,
`HexAssumption`; and `StringsAssumption`, that the literals in the model are strings,
which no prover knows. TLC evaluates them all on the run `print`.

**JsonTokenerProofs**, for any texts, cut, parsed and given up in any order, any
depth limit, and any spelling of the literals:

* of every behaviour: `TypesKept`, `NeverOverrun`, and `WholeUnlessLeftOpen`: a call that
  succeeds returns the value of the whole text, unless a 0 is met in a comment within
  a value that is complete (`LeftOpen`). So what `tok_comment` finds is the only way in which
  `OnlyWholeValues` fails;
* of every behaviour in which `LeftOpen` never occurs: `ValuesHandedOver` and
  `NextTextStartsFresh`. The condition is needed: after `LeftOpen` both fail.

There are two invariants. `ShapeInv` holds of every behaviour: the levels are records
whose saved state is one that reads something; one that has its value reads blanks
only; one that reads a text has met its quote, so that a 0 does not end it; and a call
stops without an error at the lowest level only, or with a 0 in one of few states
(`Exits`, `Passes`). `WaitInv` adds what `HandedOver` needs, which says nothing of the levels
under the top: each of them waits for a value, and a level from which a value may be
handed down has one. One lemma per case of the switch says which of four things it
does to the stack (`Stays`, `Changes`, `Opens`, `Closes`), where the state saved goes, and
that it stops only as `Exits` says; from this both invariants follow
(`StepsKeepShape`, `StepsKeepWait`). The step where they part is `Return`: it keeps `ShapeInv`
whatever the depth, and `WaitInv` only at depth 0, which `ReturnIsWhole` gives.

**AgOdbcProofs**: `DescribedIsEnough`, `TargetsAreObjects`, `ParametersSent`, and
`SuccessIsThisRow`, for any client: values, buffers and indicators shared, changed and
bound again, calls repeated after a truncation. The invariant adds that a closed
statement has no row and no buffer, that a buffer the client did not choose itself
has the column's length and one byte, that no value is longer than the column, that a
column bound with success is bound to objects or not at all, that what has been
delivered of a value is a beginning of it (`Pieces`), and that a buffer nothing else was
printed into still holds what was bound.

**AgGraphProofs**: `BufferIsLargeEnough`, for any texts; `PathsAreKept` and
`StringsHaveOneOwner`, for paths that are `WellFormed`: ids are ints, no label has a
bracket, brace or comma, and of the braces of the properties the last closes the
first. The tests' paths are such; TLC confirms it of those of the run `graph`, and
those of `graph_braces` are not, which is the finding.

A path is read as it was sent because of where things stand in its text. `Stands`
says that a text stands in another at a place, and what the tokenizer finds there
depends on the text alone (`NestingMoves`, `InGidMoves`). `VertexLaid` and
`EdgeLaid` give the places of the label, the brackets, the ids and the properties;
from them every token is read off (`LabelToken`, `IdToken`, `PropsToken`), a number
is read as it was written (`NumeralIsRead`, `IntKeeps`), and no comma of a part but
the one between the ends of an edge is outside properties, and that one is in an id
(`VertexIsOnePart`, `EdgeIsOnePart`). `PathSplits` gives the places of the commas
between the parts. The invariant (`KeptInv`) is that what has been read is the front
of what was sent, and that the token ends at the comma behind it. Recursive
functions over numbers (`numeral`, `Value`, `FlattenSeq`) are reached by induction
over a set of naturals (`NatSet`).

For the strings, the block that is given is new (`NewBlock` is outside the heap, by
a cardinality argument), and the strings joined are those of the parts so far; that
there is a part for each is `PathKept`.

Only model-checked:

* liveness (`CallsReturn` of JsonRefs, JsonTokener and Seed), which the prover does
  not do;
* the properties of JsonText (`ReturnsMeaning`, `AcceptsValid`), whose definitions are
  recursive operators over values;
* `RoundTrip` for arrays, objects, doubles and the three words: for containers it is
  an induction over values, which the prover does not do, and a double is the text
  `printf` gives it. For integers and strings it is `ScalarRoundTrip`.

## Plan

Done: every module above with its runs, and the proofs. Left, in order of use:

1. A composition of JsonTokener's values with JsonRefs: what an error in the
   middle of a text frees.
2. Several columns in AgOdbc, and a parameter whose value is released before
   the execution.

## Not modelled

* `debug.c`, `libjson.c`, `json_c_version.c` and the build files keep no state of
  interest.
* Strict parsing (`JSON_TOKENER_STRICT`) is never switched on by libagtype.
* Failing allocations: most of the code does not look at them. Sizes of 2^31 and
  more.
* Doubles: TLC has no floating point. A double is the text it was read from, or
  the text printf gives it; `json_object_get_double` and conversions from doubles
  are left out, as is `json_object_from_file`, which reads a file into the buffer.
* The mixing of bits in the hash: LinkHash allows every hash function. Hashing by
  pointer is not used by libagtype.
* Custom serialisers, but for the one that keeps the text of a double.

## Running

    tlc -config MCLinkHash.cfg MCLinkHash.tla
    tlapm LinkHashProofs.tla

Each `MC*.tla` goes with the `.cfg` files that begin with its name, and each
`*Proofs.tla` is proved alone; a proof cites no run.

`PROJECT.json` lists each run with its module, configuration and properties, the
mutated definitions that each property must reject, and the source lines of
every definition.
