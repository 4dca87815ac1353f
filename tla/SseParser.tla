------------------------------ MODULE SseParser ------------------------------
(***************************************************************************)
(* SseParser (streams.ts): the incremental parser under every event        *)
(* stream.  It is pushed the bytes in whatever chunks the transport makes  *)
(* of them, and keeps an unfinished character in its decoder, an           *)
(* unfinished line in buf and an unfinished frame in cur.                  *)
(*                                                                         *)
(* A text is a sequence of tokens.  A token is a byte or a run of bytes    *)
(* that a chunk boundary cannot tell from one: the name of a field, a      *)
(* letter.  A wide character is the two tokens "hi" and "lo"; either of    *)
(* them without the other is a bad character.                              *)
(***************************************************************************)
EXTENDS Naturals, Sequences, SequencesExt, Selection

CONSTANTS Lines,     \* bound: lines a stream is made of
          MaxLines,  \* bound: lines of a stream
          Absent     \* a field the frame does not have

\* The tokens of a stream, and what is read of them.
Letters == (UNION {ToSet(l) : l \in Lines}) \cup {"LF", "CR", "bad", "wide"}

ASSUME SseParserAssumption ==
  Lines \subseteq Seq(Letters) /\ MaxLines \in Nat /\ Absent \notin Seq(Letters)

VARIABLES text,     \* the whole stream
          fed,      \* how many of its tokens were pushed
          pending,  \* the decoder's unfinished character
          buf,      \* the unfinished line
          cur,      \* the unfinished frame
          frames    \* the frames returned so far

parserVars == <<text, fed, pending, buf, cur, frames>>

Empty == [event |-> Absent, id |-> Absent, data |-> << >>]

Ended == {l \o <<"LF">> : l \in Lines} \cup {l \o <<"CR", "LF">> : l \in Lines}
Streams(n) == {Flat(ls) : ls \in [1 .. n -> Ended]}

ParserInit ==
  /\ text \in UNION {Streams(n) : n \in 0 .. MaxLines}
  /\ fed = 0 /\ pending = << >> /\ buf = << >> /\ cur = Empty /\ frames = << >>

-----------------------------------------------------------------------------
\* What is read in a line

\* The place of the first colon, or the place after the line.
Colon(line) ==
  CHOOSE i \in 1 .. Len(line) + 1 : /\ i <= Len(line) => line[i] = "colon"
                                    /\ \A j \in 1 .. i - 1 : line[j] # "colon"

Field(line) == SubSeq(line, 1, Colon(line) - 1)

\* What follows the colon, without one leading space.
Value(line) ==
  LET after == Colon(line) + 1
  IN SubSeq(line, IF after <= Len(line) /\ line[after] = "space" THEN after + 1 ELSE after, Len(line))

\* A line without its LF loses one CR at its end.
Stripped(line) == IF line # << >> /\ Last(line) = "CR" THEN Front(line) ELSE line

-----------------------------------------------------------------------------
\* push

\* The decoder on one more token: [rest |-> unfinished character, out |-> characters].
Decode(d, token) ==
  LET cut == IF d.rest = << >> THEN << >> ELSE <<"bad">>
  IN CASE token = "hi" -> [rest |-> <<"hi">>, out |-> d.out \o cut]
       [] token = "lo" -> [rest |-> << >>, out |-> Append(d.out, IF d.rest = << >> THEN "bad" ELSE "wide")]
       [] OTHER -> [rest |-> << >>, out |-> d.out \o Append(cut, token)]

\* A mutation: each chunk is decoded afresh.
DecodedAfresh(rest, chunk) ==
  LET d[k \in 0 .. Len(chunk)] == IF k = 0 THEN [rest |-> << >>, out |-> << >>] ELSE Decode(d[k - 1], chunk[k])
  IN d[Len(chunk)]

Decoded(rest, chunk) ==
  LET d[k \in 0 .. Len(chunk)] == IF k = 0 THEN [rest |-> rest, out |-> << >>] ELSE Decode(d[k - 1], chunk[k])
  IN d[Len(chunk)]

\* The frame that cur amounts to; a blank line after nothing makes none.
Flush(p) ==
  IF p.cur = Empty THEN p
  ELSE [p EXCEPT !.cur = Empty,
                 !.out = Append(@, [event |-> IF p.cur.event = Absent THEN <<"message">> ELSE p.cur.event,
                                    id |-> p.cur.id, data |-> p.cur.data])]

\* A complete line; a comment begins with a colon and so has the empty field.
TakeLine(p, line) ==
  CASE line = << >> -> Flush(p)
    [] Field(line) = <<"event">> -> [p EXCEPT !.cur.event = Value(line)]
    [] Field(line) = <<"id">>    -> [p EXCEPT !.cur.id = Value(line)]
    [] Field(line) = <<"data">>  -> [p EXCEPT !.cur.data = Append(@, Value(line))]
    [] OTHER -> p

\* The loop over the line feeds of buf, one character at a time.
TakeChar(p, char) ==
  IF char = "LF" THEN TakeLine([p EXCEPT !.buf = << >>], Stripped(p.buf))
  ELSE [p EXCEPT !.buf = Append(@, char)]

TakeChars(start, chars) ==
  LET p[k \in 0 .. Len(chars)] == IF k = 0 THEN start ELSE TakeChar(p[k - 1], chars[k])
  IN p[Len(chars)]

Push(n) ==
  /\ fed + n <= Len(text)
  /\ LET d == Decoded(pending, SubSeq(text, fed + 1, fed + n))
         p == TakeChars([buf |-> buf, cur |-> cur, out |-> << >>], d.out)
     IN /\ pending' = d.rest
        /\ buf' = p.buf /\ cur' = p.cur
        /\ frames' = frames \o p.out
  /\ fed' = fed + n
  /\ UNCHANGED text

\* The transport may hand over an empty chunk.
ParserNext == \E n \in 0 .. Len(text) : Push(n)

ParserSpec == ParserInit /\ [][ParserNext]_parserVars

-----------------------------------------------------------------------------
\* What a text means, with no regard to chunks

\* The characters that the token at k completes.
CharsAt(t, k) ==
  LET wide == k > 1 /\ t[k - 1] = "hi"
  IN CASE t[k] = "hi" -> IF wide THEN <<"bad">> ELSE << >>
       [] t[k] = "lo" -> IF wide THEN <<"wide">> ELSE <<"bad">>
       [] OTHER -> IF wide THEN <<"bad", t[k]>> ELSE <<t[k]>>

Chars(t) == Flat([k \in DOMAIN t |-> CharsAt(t, k)])

\* The line that ends before a place, with its ending and without it.
RawLineAt(t, end) ==
  LET start == CHOOSE s \in 1 .. end : /\ s > 1 => t[s - 1] = "LF"
                                       /\ \A i \in s .. end - 1 : t[i] # "LF"
  IN SubSeq(t, start, end - 1)

LineAt(t, end) == Stripped(RawLineAt(t, end))

Ends(t) == {i \in DOMAIN t : t[i] = "LF"}
Blanks(t) == {e \in Ends(t) : LineAt(t, e) = << >>}

\* The ends of the lines of one field in the block that the blank line at b closes.
InBlock(t, b, field) ==
  {e \in Ends(t) : /\ e < b /\ Field(LineAt(t, e)) = field
                   /\ \A c \in Blanks(t) : c < b => c < e}

ValuesOf(t, b, field) == Selected([e \in DOMAIN t |-> Value(LineAt(t, e))], InBlock(t, b, field))

LastOr(values, none) == IF values = << >> THEN none ELSE Last(values)

FrameAt(t, b) ==
  [event |-> LastOr(ValuesOf(t, b, <<"event">>), <<"message">>),
   id    |-> LastOr(ValuesOf(t, b, <<"id">>), Absent),
   data  |-> ValuesOf(t, b, <<"data">>)]

\* The blank lines that end a block with a field in it.
Closing(t) ==
  {b \in Blanks(t) : \E field \in {<<"event">>, <<"id">>, <<"data">>} : InBlock(t, b, field) # {}}

FramesOf(t) == Selected([b \in DOMAIN t |-> FrameAt(t, b)], Closing(t))

\* However the bytes are cut into chunks, inside a line ending, a character or a frame, the
\* frames that came out are those of the bytes that went in: none is split, lost, repeated or
\* made of the end of a stream that stopped in the middle.  (streams.ts 56-118)
ChunkingInvisible == frames = FramesOf(Chars(SubSeq(text, 1, fed)))

=============================================================================
