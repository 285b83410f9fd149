--------------------------------- MODULE Streams --------------------------------
(***************************************************************************)
(* A compressed file (CompressBuff), written and read through its buffer,   *)
(* and the extractors of StreamIO on it: expect and find, which put back    *)
(* what they took in vain, and quoted strings.  gzread() and gzwrite() move *)
(* any number of characters; the compression itself is left out.            *)
(***************************************************************************)
EXTENDS Integers, Sequences, SequencesExt

CONSTANTS
  BuffSize,       \* 4096
  Strings,        \* strings to write: sequences of characters, from Quote on
  Searched,       \* strings that are expected and looked for
  MaxWritten      \* bound: quoted strings written

VARIABLES
  mode,       \* "none": not opened; "out", "in"; "freed": closed, with _gzFile left as it was
  file,       \* what the file holds
  outArea,        \* pbase to pptr
  area,       \* eback to egptr, BuffSize characters
  g,          \* gptr: how many of them are before it
  next,       \* how much of the file was read into the area
  putting,    \* what an inserter has still to put
  writeFailed,     \* a gzwrite() writeFailed
  call,       \* the extractor that runs: [op, want, took, text, refilled]
  stored,    \* the strings inserted
  strings,    \* the strings extracted
  pos,        \* how many characters were extracted and not put back
  astray      \* since it was opened, something other than whole strings was
              \* extracted, or characters were put back over a refill

streamsVars ==
  <<mode, file, outArea, area, g, next, putting, writeFailed, call, stored, strings, pos, astray>>
readVars == <<area, g, next, call, strings, pos, astray>>

EOF == 0
Quote == 1
Backslash == 2

ASSUME StreamsAssumption ==
  /\ BuffSize \in Nat \ {0} /\ MaxWritten \in Nat
  /\ Strings \cup Searched \subseteq Seq(Nat \ {EOF}) /\ <<>> \notin Searched

Idle == [op |-> "none", want |-> <<>>, took |-> 0, text |-> <<>>, refilled |-> FALSE]

StreamsInit ==
  /\ mode = "none" /\ file = <<>> /\ outArea = <<>> /\ putting = <<>> /\ writeFailed = FALSE
  /\ area = [i \in 1..BuffSize |-> EOF] /\ g = BuffSize /\ next = 0
  /\ call = Idle /\ stored = <<>> /\ strings = <<>> /\ pos = 0 /\ astray = FALSE

--------------------------------------------------------------------------------
Escaped(s) ==
  FlattenSeq([i \in DOMAIN s |-> IF s[i] \in {Quote, Backslash} THEN <<Backslash, s[i]>> ELSE <<s[i]>>])

QuotedText(s) == <<Quote>> \o Escaped(s) \o <<Quote>>

OpenOut ==
  /\ mode = "none" /\ mode' = "out" /\ file' = <<>> /\ outArea' = <<>>
  /\ UNCHANGED <<putting, writeFailed, stored, readVars>>

(* operator << of a QuotedString *)
Insert(s) ==
  /\ mode = "out" /\ putting = <<>> /\ Len(stored) < MaxWritten
  /\ putting' = QuotedText(s) /\ stored' = Append(stored, s)
  /\ UNCHANGED <<mode, file, outArea, writeFailed, readVars>>

(* sync(): the file takes k characters, and all of them unless it fails. *)
WriteOut(k) == file' = file \o SubSeq(outArea, 1, k)

(* The first character that is not taken ends the inserter. *)
WriteFails ==
  /\ \E k \in 0..(Len(outArea) - 1) : WriteOut(k) /\ outArea' = SubSeq(outArea, k + 1, Len(outArea))
  /\ writeFailed' = TRUE /\ putting' = <<>>

PutChar ==
  /\ putting # <<>>
  /\ \/ Len(outArea) < BuffSize /\ outArea' = Append(outArea, Head(putting))
        /\ putting' = Tail(putting) /\ UNCHANGED <<file, writeFailed>>
     \/ Len(outArea) = BuffSize /\ WriteOut(BuffSize) /\ outArea' = <<Head(putting)>>
        /\ putting' = Tail(putting) /\ UNCHANGED writeFailed
     \/ Len(outArea) = BuffSize /\ WriteFails
  /\ UNCHANGED <<mode, stored, readVars>>

(* close() writes what is left.  _gzFile stays: a second close, also that of  *)
(* the destructor, would use the freed handle; the model ends there.          *)
Close ==
  /\ mode \in {"out", "in"} /\ putting = <<>> /\ call = Idle
  /\ mode' = "freed"
  /\ \/ WriteOut(Len(outArea)) /\ outArea' = <<>> /\ UNCHANGED <<putting, writeFailed>>
     \/ WriteFails
  /\ UNCHANGED <<stored, readVars>>

(* Another stream opens the file to read it. *)
OpenIn ==
  /\ mode = "freed" /\ mode' = "in"
  /\ g' = BuffSize /\ next' = 0 /\ pos' = 0 /\ strings' = <<>> /\ astray' = writeFailed /\ outArea' = <<>>
  /\ UNCHANGED <<file, putting, writeFailed, call, stored, area>>

--------------------------------------------------------------------------------
(* Mutant: what was read stays at the front of the area. *)
RefilledUnmoved(s) == [i \in 1..BuffSize |-> IF i <= Len(s) THEN s[i] ELSE area[i]]

(* underflow(): gzread() to the front, and from there to the end. *)
Refilled(s) ==
  [i \in 1..BuffSize |-> IF i > BuffSize - Len(s) THEN s[i - BuffSize + Len(s)]
                         ELSE IF i <= Len(s) THEN s[i] ELSE area[i]]

AtEnd == next = Len(file)

Underflow ==
  /\ call # Idle /\ g = BuffSize /\ ~AtEnd
  /\ \E k \in 1..(Len(file) - next) :
       k <= BuffSize /\ area' = Refilled(SubSeq(file, next + 1, next + k))
         /\ g' = BuffSize - k /\ next' = next + k
  /\ call' = [call EXCEPT !.refilled = @ \/ call.took > 0]
  /\ UNCHANGED <<mode, file, outArea, putting, writeFailed, stored, strings, pos, astray>>

Peeked == IF g < BuffSize THEN area[g + 1] ELSE EOF
Peekable == g < BuffSize \/ AtEnd

Call(op, s) ==
  /\ mode = "in" /\ call = Idle
  /\ call' = [Idle EXCEPT !.op = op, !.want = s]
  /\ UNCHANGED <<mode, file, outArea, area, g, next, putting, writeFailed, stored, strings, pos, astray>>

Take(c) ==
  /\ g' = g + 1 /\ pos' = pos + 1 /\ call' = c
  /\ UNCHANGED <<area, next, strings, astray>>

(* sungetc(), n times: it stops at the front of the area, and takes what is   *)
(* there for what was extracted.                                              *)
PutBack(n) ==
  /\ g' = IF g > n THEN g - n ELSE 0
  /\ pos' = pos - n /\ call' = Idle
  /\ astray' = (astray \/ call.refilled \/ n < call.took)
  /\ UNCHANGED <<area, next, strings>>

(* The extractor returns, and the strings that follow do not count. *)
Leave == call' = Idle /\ astray' = TRUE /\ UNCHANGED <<area, g, next, strings, pos>>

Matched == [call EXCEPT !.want = Tail(@), !.took = @ + 1]

(* expect: any difference, and the end, put everything back. *)
Expect ==
  /\ call.op = "expect"
  /\ \/ call.want = <<>> /\ Leave
     \/ call.want # <<>> /\ Peekable /\ Peeked = Head(call.want) /\ Take(Matched)
     \/ call.want # <<>> /\ Peekable /\ Peeked # Head(call.want) /\ PutBack(call.took)

(* find: characters are dropped up to the first of the string; at the end     *)
(* those after it are put back; a difference after it fails with none.        *)
FindWord ==
  /\ call.op = "find"
  /\ \/ call.want = <<>> /\ Leave
     \/ /\ call.want # <<>> /\ Peekable /\ Peeked # EOF
        /\ \/ Peeked = Head(call.want) /\ Take(Matched)
           \/ Peeked # Head(call.want) /\ call.took = 0 /\ Take(call)
           \/ Peeked # Head(call.want) /\ call.took > 0 /\ Leave
     \/ /\ call.want # <<>> /\ Peekable /\ Peeked = EOF
        /\ IF call.took > 1 THEN PutBack(call.took - 1) ELSE Leave

(* operator >> of a QuotedString; `want' holds the character before an        *)
(* escaped one.  The end gives up the string.                                 *)
Quoted ==
  /\ call.op = "quoted" /\ Peekable
  /\ \/ Peeked = EOF /\ Leave
     \/ call.took = 0 /\ Peeked = Quote /\ Take([call EXCEPT !.took = 1])
     \/ /\ call.took = 0 /\ Peeked \notin {EOF, Quote}
        /\ g' = g + 1 /\ pos' = pos + 1 /\ call' = Idle /\ astray' = TRUE
        /\ UNCHANGED <<area, next, strings>>
     \/ /\ call.took = 1 /\ call.want = <<>> /\ Peeked = Quote
        /\ g' = g + 1 /\ pos' = pos + 1 /\ call' = Idle
        /\ strings' = Append(strings, call.text) /\ UNCHANGED <<area, next, astray>>
     \/ call.took = 1 /\ call.want = <<>> /\ Peeked = Backslash
        /\ Take([call EXCEPT !.want = <<Backslash>>])
     \/ call.took = 1 /\ call.want = <<>> /\ Peeked \notin {EOF, Quote, Backslash}
        /\ Take([call EXCEPT !.text = Append(@, Peeked)])
     \/ call.took = 1 /\ call.want # <<>> /\ Peeked # EOF
        /\ Take([call EXCEPT !.want = <<>>,
                             !.text = @ \o (IF Peeked \in {Quote, Backslash} THEN <<>> ELSE call.want)
                                        \o <<Peeked>>])

StreamsNext ==
  \/ OpenOut \/ OpenIn \/ PutChar \/ Close \/ Underflow
  \/ \E s \in Strings : Insert(s)
  \/ \E s \in Searched : Call("expect", s) \/ Call("find", s)
  \/ Call("quoted", <<>>)
  \/ (Expect \/ FindWord \/ Quoted) /\ UNCHANGED <<mode, file, outArea, putting, writeFailed, stored>>

StreamsSpec == StreamsInit /\ [][StreamsNext]_streamsVars

--------------------------------------------------------------------------------
(* However the buffer cuts the file, quoted strings are extracted as they     *)
(* were inserted, whatever they hold, and a vain expect in between loses      *)
(* nothing, unless the buffer was refilled while it ran (StreamIO.cpp:52).    *)
ReadsBack ==
  /\ mode = "in" /\ ~astray => IsPrefix(strings, stored)
  /\ mode = "in" /\ ~astray /\ call.op \in {"none", "quoted"} =>
       SubSeq(area, g + 1, BuffSize) \o SubSeq(file, next + 1, Len(file))
         = SubSeq(file, pos + 1, Len(file))

(* What the proof carries along.  Of a stream that is not astray: what is to  *)
(* come is in the area behind g and in the file behind next, and what an      *)
(* expect took and may put back is in the area before g.                      *)
CallType == [op : {"none", "expect", "find", "quoted"}, want : Seq(Nat \ {EOF}),
             took : Nat, text : Seq(Nat), refilled : BOOLEAN]

StreamsTypeOK ==
  /\ mode \in {"none", "out", "freed", "in"}
  /\ {file, outArea, putting} \subseteq Seq(Nat) /\ {stored, strings} \subseteq Seq(Seq(Nat))
  /\ area \in [1..BuffSize -> Nat] /\ g \in 0..BuffSize /\ next \in 0..Len(file) /\ pos \in Int
  /\ {writeFailed, astray} \subseteq BOOLEAN /\ call \in CallType

ModeInv ==
  /\ mode # "in" => call = Idle
  /\ mode = "in" => putting = <<>> /\ outArea = <<>> /\ (writeFailed => astray)
  /\ mode = "none" => file = <<>> /\ outArea = <<>> /\ putting = <<>> /\ stored = <<>>
  /\ mode = "freed" => putting = <<>> /\ (writeFailed \/ outArea = <<>>)
  /\ mode \in {"none", "out"} => next = 0

AreaInv ==
  mode = "in" /\ ~astray =>
    /\ pos = next - (BuffSize - g) /\ pos >= 0
    /\ \A i \in 1..(BuffSize - g) : area[g + i] = file[pos + i]
    /\ call.op = "expect" /\ ~call.refilled =>
         /\ call.took <= g /\ call.took <= pos
         /\ \A i \in 0..(call.took - 1) : area[g - i] = file[pos - i]

StreamsIInv == StreamsTypeOK /\ ModeInv /\ AreaInv
================================================================================
