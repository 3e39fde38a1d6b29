----------------------------- MODULE SplitJoin -----------------------------
(***************************************************************************)
(* The lazy string splitter and joiner (include/slt/str_manip): iterators  *)
(* over views of their input, whose ends are told by null views and by the *)
(* last payload. A behaviour splits a string, or starts from payloads that *)
(* the user has, and joins the pieces again with the same delimiter.       *)
(***************************************************************************)
EXTENDS Naturals, SequencesExt

CONSTANTS
    Chars,
    MaxLength,  \* bound on a payload, a delimiter and, one less, a source
    MaxPayloads,\* bound on the payloads given to the joiner
    MaxPieces   \* bound on the pieces the splitter is asked for

VARIABLES
    job,      \* how far it is, from "none" to "done"
    source,   \* of the splitter, which also keeps its delimiter
    delim,
    piece,    \* sub_str_
    rest,     \* remainder_
    payloads, \* the pieces so far, or the payloads given to the joiner
    payload,  \* current_payload_
    next,     \* next_char_ite_
    joined    \* what the joiner has been read so far

splitVars == <<source, piece, rest>>
joinVars == <<payload, next, joined>>
strVars == <<job, delim, payloads, splitVars, joinVars>>

\* A string_view: where it starts, 0 for the null pointer, and its length.
NullView == [data |-> 0, len |-> 0]
Chars_(v) == SubSeq(source, v.data, v.data + v.len - 1)

\* next_char_ite_: in a payload (alternative 0) or in the delimiter, and the
\* default value, which is also that of end().
In(alternative, pos) == [alternative |-> alternative, pos |-> pos]
DefaultNext == In("payload", 0)

StrInit ==
    /\ job = "none"
    /\ source = <<>> /\ delim = <<>> /\ payloads = <<>>
    /\ piece = NullView /\ rest = NullView
    /\ payload = 1 /\ next = DefaultNext /\ joined = <<>>

-----------------------------------------------------------------------------
\* The positions in v, from 0, at which the delimiter starts.
Found(v) ==
    {i \in 0 .. v.len : i + Len(delim) <= v.len
        /\ SubSeq(source, v.data + i, v.data + i + Len(delim) - 1) = delim}

\* A plausible bug: rfind.
AdvanceToLast(v) ==
    IF Found(v) = {}
    THEN [piece |-> v, rest |-> NullView]
    ELSE LET pos == Max(Found(v))
         IN  [piece |-> [data |-> v.data, len |-> pos],
              rest |-> [data |-> v.data + pos + Len(delim), len |-> v.len - pos - Len(delim)]]

\* advance_: the new sub_str_ and remainder_ of an iterator whose remainder is v.
Advance(v) ==
    IF Found(v) = {}
    THEN [piece |-> v, rest |-> NullView]
    ELSE LET pos == Min(Found(v))
         IN  [piece |-> [data |-> v.data, len |-> pos],
              rest |-> [data |-> v.data + pos + Len(delim), len |-> v.len - pos - Len(delim)]]

MoveTo(v) == piece' = Advance(v).piece /\ rest' = Advance(v).rest

\* split(s, d) and join(ps.begin(), ps.end(), d)
CallSplit(s, d) ==
    /\ job = "none" /\ job' = "split"
    /\ source' = s /\ delim' = d
    /\ UNCHANGED <<payloads, piece, rest, joinVars>>

CallJoin(ps, d) ==
    /\ job = "none" /\ job' = "begin_join"
    /\ payloads' = ps /\ delim' = d
    /\ UNCHANGED <<splitVars, joinVars>>

\* begin(), which is end() for the empty string; end() has only null views.
SplitEnd == piece = NullView /\ rest = NullView
BeginSplit ==
    /\ job = "split"
    /\ IF source = <<>>
       THEN UNCHANGED splitVars
       ELSE MoveTo([data |-> 1, len |-> Len(source)]) /\ UNCHANGED source
    /\ job' = "splitting"
    /\ UNCHANGED <<delim, payloads, joinVars>>

\* *ite and ++ite, until the end.
NextPiece ==
    /\ job = "splitting" /\ ~SplitEnd
    /\ Len(payloads) < MaxPieces
    /\ payloads' = Append(payloads, Chars_(piece))
    /\ MoveTo(rest)
    /\ UNCHANGED <<job, delim, source, joinVars>>

\* The pieces are joined.
EndSplit ==
    /\ job = "splitting" /\ SplitEnd
    /\ job' = "begin_join"
    /\ UNCHANGED <<delim, payloads, splitVars, joinVars>>

-----------------------------------------------------------------------------
\* The first payload from p on that has a character, or payload_end_.
SkipEmpty(p) ==
    Min({i \in p .. Len(payloads) : payloads[i] # <<>>} \cup {Len(payloads) + 1})

\* A plausible bug: after an empty payload its successor follows at once.
SanitizeSkipping(p, pos) ==
    IF pos <= Len(payloads[p])
    THEN [payload |-> p, next |-> In("payload", pos)]
    ELSE LET q == IF delim = <<>> \/ payloads[p] = <<>> THEN SkipEmpty(p + 1) ELSE p + 1
         IN  [payload |-> q,
              next |-> IF q > Len(payloads) THEN DefaultNext
                       ELSE IF delim = <<>> THEN In("payload", 1) ELSE In("delimiter", 1)]

\* sanitize_, in payload p at pos: at its end the delimiter is next, if there is
\* one, or the next payload that is not empty; the last is followed by nothing.
Sanitize(p, pos) ==
    IF pos <= Len(payloads[p])
    THEN [payload |-> p, next |-> In("payload", pos)]
    ELSE LET q == IF delim = <<>> THEN SkipEmpty(p + 1) ELSE p + 1
         IN  [payload |-> q,
              next |-> IF q > Len(payloads) THEN DefaultNext
                       ELSE IF delim = <<>> THEN In("payload", 1) ELSE In("delimiter", 1)]

GoTo(to) == payload' = to.payload /\ next' = to.next

\* begin()
BeginJoin ==
    /\ job = "begin_join"
    /\ IF payloads = <<>> THEN UNCHANGED <<payload, next>> ELSE GoTo(Sanitize(1, 1))
    /\ job' = "joining"
    /\ UNCHANGED <<delim, payloads, splitVars, joined>>

\* Equality with end()
JoinEnd == payload = Len(payloads) + 1 /\ next = DefaultNext

\* *ite in either alternative, and advance_.
PayloadChar ==
    /\ job = "joining" /\ ~JoinEnd
    /\ next.alternative = "payload"
    /\ joined' = Append(joined, payloads[payload][next.pos])
    /\ GoTo(Sanitize(payload, next.pos + 1))
    /\ UNCHANGED <<job, delim, payloads, splitVars>>

DelimChar ==
    /\ job = "joining" /\ ~JoinEnd
    /\ next.alternative = "delimiter"
    /\ joined' = Append(joined, delim[next.pos])
    /\ GoTo(IF next.pos < Len(delim)
            THEN [payload |-> payload, next |-> In("delimiter", next.pos + 1)]
            ELSE Sanitize(payload, 1))
    /\ UNCHANGED <<job, delim, payloads, splitVars>>

EndJoin ==
    /\ job = "joining" /\ JoinEnd
    /\ job' = "done"
    /\ UNCHANGED <<delim, payloads, splitVars, joinVars>>

Strings(length) == BoundedSeq(Chars, length)

StrNext ==
    \/ \E d \in Strings(MaxLength) :
           \/ \E s \in Strings(MaxLength + 1) : CallSplit(s, d)
           \/ \E ps \in BoundedSeq(Strings(MaxLength), MaxPayloads) : CallJoin(ps, d)
    \/ BeginSplit \/ NextPiece \/ EndSplit
    \/ BeginJoin \/ PayloadChar \/ DelimChar \/ EndJoin

StrSpec == StrInit /\ [][StrNext]_strVars

-----------------------------------------------------------------------------
\* The payloads with the delimiter between each two of them.
Interspersed ==
    FlattenSeq([i \in 1 .. 2 * Len(payloads) - 1 |->
                   IF i % 2 = 1 THEN payloads[(i + 1) \div 2] ELSE delim])

\* Where the delimiter is in s for the first time, or past its end.
FirstAt(s) ==
    Min({i \in 1 .. Len(s) + 1 - Len(delim) :
            SubSeq(s, i, i + Len(delim) - 1) = delim} \cup {Len(s) + 1})

\* What the joiner is read is all of it, empty payloads and an empty delimiter
\* included; so joining the pieces of a string gives it back.
JoinsBack ==
    job = "done" => joined = Interspersed /\ (source # <<>> => joined = source)

\* The pieces are those between the leftmost delimiters: each is followed by the
\* first one after its start, and the last holds none.
SplitsLeftmost ==
    job = "begin_join" /\ source # <<>> =>
        /\ delim # <<>>
        /\ \A i \in 1 .. Len(payloads) - 1 :
               FirstAt(payloads[i] \o delim) = Len(payloads[i]) + 1
        /\ FirstAt(Last(payloads)) > Len(Last(payloads))

(***************************************************************************)
(* split and join do what their names say, at every edge: delimiters at    *)
(* the ends, next to each other and overlapping, empty payloads, an empty  *)
(* delimiter for join. (split with an empty delimiter never ends.)         *)
(***************************************************************************)
SplitJoinRight == SplitsLeftmost /\ JoinsBack
=============================================================================
