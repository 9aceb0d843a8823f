-------------------------- MODULE JobOutput_proofs --------------------------
(***************************************************************************)
(* The output of a job, for scripts, limits and pipes of any size: nothing *)
(* exceeds its limit, what is stored is the longest part that fits it, and *)
(* the flag says whether that is all.                                      *)
(***************************************************************************)
EXTENDS JobOutput, SequenceTheorems, WellFoundedInduction, TLAPS

-----------------------------------------------------------------------------
LEMMA LargestExists ==
  ASSUME NEW n \in Nat, NEW S, S \subseteq 0..n, S # {}
  PROVE  Max(S) \in S /\ \A y \in S : Max(S) >= y
<1> DEFINE T == {k \in Nat : n - k \in S}
<1>1. T # {}
  <2>1. PICK y \in S : TRUE
    OBVIOUS
  <2>2. n - y \in T
    BY <2>1
  <2> QED
    BY <2>2
<1>2. PICK x \in T : \A y \in T : ~ (<<y, x>> \in OpToRel(<, Nat))
  <2> HIDE DEF T
  <2>1. T \subseteq Nat
    BY DEF T
  <2> QED
    BY <1>1, <2>1, NatLessThanWellFounded, WFMin, Zenon
<1>3. \A y \in T : ~ (y < x)
  BY <1>2 DEF OpToRel
<1>4. n - x \in S
  BY <1>2
<1>5. ASSUME NEW y \in S
      PROVE  n - x >= y
  <2>1. n - y \in T
    OBVIOUS
  <2>2. ~ (n - y < x)
    BY <1>3, <2>1
  <2> QED
    BY <2>2
<1> QED
  BY <1>4, <1>5 DEF Max

(* Cutting a text leaves its first characters, no more than there are.     *)
LEMMA CutToType ==
  ASSUME NEW text \in Seq(Chars), NEW max
  PROVE  CutTo(text, max) \in Seq(Chars)
<1>1. Len(text) \in Nat
  BY LenProperties
<1>2. Whole(text, max) \subseteq 0..Len(text) /\ Whole(text, max) # {}
  BY <1>1 DEF Whole
<1>3. Max(Whole(text, max)) \in 0..Len(text)
  BY <1>1, <1>2, LargestExists
<1>4. \A i \in 1..Max(Whole(text, max)) : text[i] \in Chars
  BY <1>1, <1>3, ElementOfSeq
<1> QED
  BY <1>3, <1>4, SubSeqProperties DEF CutTo

(* A text within the limit is not cut.                                     *)
LEMMA ShortIsKept ==
  ASSUME NEW text \in Seq(Chars), NEW max, ~TooLong(text, max)
  PROVE  CutTo(text, max) = text
<1>1. Len(text) \in Nat
  BY LenProperties
<1>2. SubSeq(text, 1, Len(text)) = text
  BY SubSeqFull
<1>3. Len(text) \in Whole(text, max)
  <2>1. CASE Len(text) = 0
    BY <2>1 DEF Whole
  <2>2. CASE Len(text) # 0
    <3>1. Len(text) \in 1..Len(text)
      BY <1>1, <2>2
    <3>2. ~PairAt(text, Len(text))
      BY <1>1 DEF PairAt
    <3>3. ~TooLong(SubSeq(text, 1, Len(text)), max)
      BY <1>2
    <3> QED
      BY <3>1, <3>2, <3>3 DEF Whole
  <2> QED
    BY <2>1, <2>2
<1>4. Whole(text, max) \subseteq 0..Len(text)
  BY <1>1 DEF Whole
<1>5. Max(Whole(text, max)) \in 0..Len(text) /\ Max(Whole(text, max)) >= Len(text)
  BY <1>1, <1>3, <1>4, LargestExists
<1>6. Max(Whole(text, max)) = Len(text)
  BY <1>1, <1>5
<1> QED
  BY <1>2, <1>6 DEF CutTo

-----------------------------------------------------------------------------
(* The capture of one stream.                                              *)

(* A capture that is within the limit of its agent. *)
Bounded(c) == c \in Captures /\ c.bytes <= AgentLimit

(* The half of a surrogate pair that waits for the other. *)
Waiting(c) == IF c.high THEN <<"h">> ELSE <<>>

(* All that was read of the stream, if nothing was cut. *)
ReadSoFar(c) == c.text \o Waiting(c)

LEMMA LimitsAreNumbers ==
  /\ Limit \in Nat /\ LegacyLimit \in Nat /\ AgentLimit \in Nat
  /\ AgentLimit <= LegacyLimit /\ PipeSize \in Nat /\ PipeSize >= 1
BY LimitsAssumption, SizesAssumption DEF AgentLimit

LEMMA CharSeqs ==
  /\ <<>> \in Seq(Chars)
  /\ \A a \in Chars : <<a>> \in Seq(Chars) /\ Len(<<a>>) = 1 /\ <<a>>[1] = a
  /\ <<"h", "l">> \in Seq(Chars)
  /\ <<"h", "l">> = <<"h">> \o <<"l">>
<1>1. <<>> \in Seq(Chars) /\ \A a \in Chars : <<a>> \in Seq(Chars) /\ Len(<<a>>) = 1 /\ <<a>>[1] = a
  OBVIOUS
<1>2. <<"h", "l">> \in Seq(Chars) /\ <<"h">> \in Seq(Chars) /\ <<"l">> \in Seq(Chars)
  BY DEF Chars
<1>3. <<"h", "l">> = <<"h">> \o <<"l">>
  OBVIOUS
<1> QED
  BY <1>1, <1>2, <1>3

LEMMA KeepFields ==
  ASSUME NEW c, Bounded(c), NEW chars \in Seq(Chars), NEW size \in Nat
  PROVE  /\ Bounded(Keep(c, chars, size))
         /\ Keep(c, chars, size).high = c.high
         /\ ~Keep(c, chars, size).truncated =>
              ~c.truncated /\ Keep(c, chars, size).text = c.text \o chars
<1> USE LimitsAreNumbers DEF Bounded
<1>1. c.bytes \in Nat /\ c.text \in Seq(Chars)
  BY DEF Captures
<1>2. CASE c.bytes + size > AgentLimit
  <2>1. Keep(c, chars, size) = [c EXCEPT !.truncated = TRUE]
    BY <1>2 DEF Keep
  <2> QED
    BY <2>1 DEF Captures
<1>3. CASE ~ (c.bytes + size > AgentLimit)
  <2>1. Keep(c, chars, size) = [c EXCEPT !.text = @ \o chars, !.bytes = @ + size]
    BY <1>3 DEF Keep
  <2>2. c.bytes + size \in 0..LegacyLimit /\ c.bytes + size <= AgentLimit
    BY <1>1, <1>3
  <2>3. c.text \o chars \in Seq(Chars)
    BY <1>1, ConcatProperties
  <2> QED
    BY <2>1, <2>2, <2>3 DEF Captures
<1> QED
  BY <1>2, <1>3

LEMMA FinishFields ==
  ASSUME NEW c, Bounded(c)
  PROVE  /\ Bounded(Finish(c))
         /\ ~Finish(c).high
         /\ ~Finish(c).truncated => ~c.truncated /\ Finish(c).text = ReadSoFar(c)
<1> DEFINE u == [c EXCEPT !.high = FALSE]
<1>1. /\ Bounded(u) /\ ~u.high /\ u.text = c.text
      /\ u.truncated = c.truncated /\ c.text \in Seq(Chars)
  BY DEF Bounded, Captures
<1> HIDE DEF u
<1>2. CASE c.high /\ ~c.truncated
  <2>1. Finish(c) = Keep(u, <<"h">>, 3)
    BY <1>2 DEF Finish, u
  <2>2. <<"h">> \in Seq(Chars) /\ 3 \in Nat
    BY CharSeqs DEF Chars
  <2>3. /\ Bounded(Finish(c))
        /\ Finish(c).high = u.high
        /\ ~Finish(c).truncated => Finish(c).text = u.text \o <<"h">>
    BY <1>1, <2>1, <2>2, KeepFields
  <2> QED
    BY <1>1, <1>2, <2>3 DEF ReadSoFar, Waiting
<1>3. CASE ~ (c.high /\ ~c.truncated)
  <2>1. Finish(c) = u
    BY <1>3 DEF Finish, u
  <2>2. c.text \o <<>> = c.text
    BY <1>1, ConcatEmptySeq
  <2> QED
    BY <1>1, <1>3, <2>1, <2>2 DEF ReadSoFar, Waiting
<1> QED
  BY <1>2, <1>3

LEMMA KeepOrWaitFields ==
  ASSUME NEW c, Bounded(c), ~c.high, NEW char \in Chars
  PROVE  /\ Bounded(KeepOrWait(c, char))
         /\ ~KeepOrWait(c, char).truncated =>
              ~c.truncated /\ ReadSoFar(KeepOrWait(c, char)) = c.text \o <<char>>
<1>1. c.text \in Seq(Chars)
  BY DEF Bounded, Captures
<1>2. CASE char = "h"
  <2>1. KeepOrWait(c, char) = [c EXCEPT !.high = TRUE]
    BY <1>2 DEF KeepOrWait
  <2> QED
    BY <1>2, <2>1 DEF Bounded, Captures, ReadSoFar, Waiting
<1>3. CASE char # "h"
  <2> DEFINE d == Keep(c, <<char>>, Utf8Length(char))
  <2>1. KeepOrWait(c, char) = d
    BY <1>3 DEF KeepOrWait
  <2>2. Utf8Length(char) \in Nat /\ <<char>> \in Seq(Chars)
    BY CharSeqs DEF Utf8Length
  <2>3. /\ Bounded(d) /\ d.high = c.high
        /\ ~d.truncated => ~c.truncated /\ d.text = c.text \o <<char>>
    BY <2>2, KeepFields
  <2>4. (c.text \o <<char>>) \o <<>> = c.text \o <<char>>
    BY <1>1, CharSeqs, ConcatProperties, ConcatEmptySeq
  <2> HIDE DEF d
  <2> QED
    BY <2>1, <2>3, <2>4 DEF ReadSoFar, Waiting
<1> QED
  BY <1>2, <1>3

(* One more character is read: nothing before it is lost, unless flagged.  *)
LEMMA AppendCharFields ==
  ASSUME NEW c, Bounded(c), NEW char \in Chars
  PROVE  /\ Bounded(AppendChar(c, char))
         /\ ~AppendChar(c, char).truncated =>
              ~c.truncated /\ ReadSoFar(AppendChar(c, char)) = ReadSoFar(c) \o <<char>>
<1>1. c.text \in Seq(Chars)
  BY DEF Bounded, Captures
<1>2. CASE c.truncated
  BY <1>2 DEF AppendChar
<1>3. CASE ~c.truncated /\ c.high /\ char = "l"
  <2> DEFINE u == [c EXCEPT !.high = FALSE]
             d == Keep(u, <<"h", "l">>, 4)
  <2>1. AppendChar(c, char) = d
    BY <1>3 DEF AppendChar
  <2>2. Bounded(u) /\ ~u.high /\ u.text = c.text
    BY DEF Bounded, Captures
  <2> HIDE DEF u
  <2>3. /\ Bounded(d) /\ d.high = u.high
        /\ ~d.truncated => d.text = u.text \o <<"h", "l">>
    <3>1. <<"h", "l">> \in Seq(Chars) /\ 4 \in Nat
      BY CharSeqs
    <3> QED
      BY <2>2, <3>1, KeepFields
  <2>4. c.text \o <<"h", "l">> = (c.text \o <<"h">>) \o <<"l">>
    BY <1>1, CharSeqs, ConcatAssociative DEF Chars
  <2>5. (c.text \o <<"h", "l">>) \o <<>> = c.text \o <<"h", "l">>
    BY <1>1, CharSeqs, ConcatProperties, ConcatEmptySeq
  <2> HIDE DEF d
  <2> QED
    BY <1>3, <2>1, <2>2, <2>3, <2>4, <2>5 DEF ReadSoFar, Waiting
<1>4. CASE ~c.truncated /\ ~ (c.high /\ char = "l")
  <2>1. Bounded(Finish(c)) /\ ~Finish(c).high
        /\ (~Finish(c).truncated => Finish(c).text = ReadSoFar(c))
    BY FinishFields
  <2>2. CASE Finish(c).truncated
    <3>1. AppendChar(c, char) = Finish(c)
      BY <1>4, <2>2 DEF AppendChar
    <3> QED
      BY <2>1, <2>2, <3>1
  <2>3. CASE ~Finish(c).truncated
    <3>1. AppendChar(c, char) = KeepOrWait(Finish(c), char)
      BY <1>4, <2>3 DEF AppendChar
    <3>2. /\ Bounded(KeepOrWait(Finish(c), char))
          /\ ~KeepOrWait(Finish(c), char).truncated =>
               ReadSoFar(KeepOrWait(Finish(c), char)) = Finish(c).text \o <<char>>
      BY <2>1, KeepOrWaitFields
    <3> QED
      BY <1>4, <2>1, <2>3, <3>1, <3>2
  <2> QED
    BY <2>2, <2>3
<1> QED
  BY <1>2, <1>3, <1>4

-----------------------------------------------------------------------------
LEMMA EmptyFits ==
  /\ EmptyCapture \in Captures /\ EmptyCapture.bytes = 0
  /\ \A state \in {"none", "TimedOut", "Failed"} : Without(state) \in Results
  /\ \A state : Without(state).state = state
BY LimitsAreNumbers, CharSeqs DEF EmptyCapture, Captures, Without, Results

LEMMA LimitOutputType ==
  ASSUME NEW result \in Results
  PROVE  LimitOutput(result) \in Results
<1>1. \A s \in Streams : CutTo(result.text[s], Limit) \in Seq(Chars)
  BY CutToType DEF Results
<1>2. \A s \in Streams : (result.cut[s] \/ TooLong(result.text[s], Limit)) \in BOOLEAN
  OBVIOUS
<1>3. [s \in Streams |-> CutTo(result.text[s], Limit)] \in [Streams -> Seq(Chars)]
  BY <1>1
<1>4. [s \in Streams |-> result.cut[s] \/ TooLong(result.text[s], Limit)] \in [Streams -> BOOLEAN]
  BY <1>2
<1> QED
  BY <1>3, <1>4 DEF LimitOutput, Results

(* The parts of TypeOK, for the steps that change only some of them. *)
AgentTypeOK == /\ legacy \in BOOLEAN /\ intact \in BOOLEAN /\ expired \in BOOLEAN
               /\ runner \in {"new", "waiting", "collecting", "done"}
ReadTypeOK  == /\ reader \in [Streams -> {"reading", "ended", "cancelled"}]
               /\ capture \in [Streams -> Captures]
               /\ \A s \in Streams : capture[s].bytes <= AgentLimit
JobTypeOK   == /\ todo \in Seq(Writes)
               /\ process \in {"none", "running", "exited", "killed"}
               /\ held \in BOOLEAN
               /\ pipe \in [Streams -> Seq(Chars)]
               /\ \A s \in Streams : Len(pipe[s]) <= PipeSize
               /\ wrote \in [Streams -> Seq(Chars)]
SentTypeOK  == sent \in Results /\ stored \in Results

LEMMA TypeParts == TypeOK <=> AgentTypeOK /\ ReadTypeOK /\ JobTypeOK /\ SentTypeOK
BY DEF TypeOK, AgentTypeOK, ReadTypeOK, JobTypeOK, SentTypeOK

LEMMA PartsStay ==
  /\ ReadTypeOK /\ UNCHANGED <<agent, reader, capture>> => ReadTypeOK'
  /\ JobTypeOK /\ UNCHANGED job => JobTypeOK'
  /\ SentTypeOK /\ UNCHANGED <<sent, stored>> => SentTypeOK'
<1>1. ReadTypeOK /\ UNCHANGED <<agent, reader, capture>> => ReadTypeOK'
  BY DEF ReadTypeOK, AgentLimit, agent
<1>2. JobTypeOK /\ UNCHANGED job => JobTypeOK'
  BY DEF JobTypeOK, job
<1>3. SentTypeOK /\ UNCHANGED <<sent, stored>> => SentTypeOK'
  BY DEF SentTypeOK
<1> QED
  BY <1>1, <1>2, <1>3

(* Every variable keeps its type; above all, no capture exceeds the limit  *)
(* of its agent, and no pipe its size.                                     *)
THEOREM TypeCorrect == Spec => []TypeOK
<1>1. Init => TypeOK
  <2> SUFFICES ASSUME Init PROVE TypeOK
    OBVIOUS
  <2>1. AgentTypeOK /\ SentTypeOK
    BY EmptyFits DEF Init, AgentTypeOK, SentTypeOK, NoResult
  <2>2. ReadTypeOK
    BY EmptyFits, LimitsAreNumbers DEF Init, ReadTypeOK
  <2>3. todo \in Seq(Writes)
    BY SizesAssumption DEF Init, Scripts
  <2>4. pipe \in [Streams -> Seq(Chars)] /\ wrote \in [Streams -> Seq(Chars)]
        /\ \A s \in Streams : Len(pipe[s]) <= PipeSize
    BY CharSeqs, LimitsAreNumbers DEF Init
  <2>5. process = "none" /\ held \in BOOLEAN
    BY DEF Init
  <2> QED
    BY <2>1, <2>2, <2>3, <2>4, <2>5, TypeParts DEF JobTypeOK
<1>2. TypeOK /\ [Next]_vars => TypeOK'
  <2> SUFFICES ASSUME AgentTypeOK, ReadTypeOK, JobTypeOK, SentTypeOK, [Next]_vars
               PROVE  AgentTypeOK' /\ ReadTypeOK' /\ JobTypeOK' /\ SentTypeOK'
    BY TypeParts DEF TypeOK, AgentTypeOK, ReadTypeOK, JobTypeOK, SentTypeOK
  <2>1. CASE UNCHANGED vars
    <3>1. AgentTypeOK'
      BY <2>1 DEF vars, agent, AgentTypeOK
    <3> QED
      BY <2>1, <3>1, PartsStay DEF vars
  <2>2. CASE Start \/ Exited \/ Timeout
    <3>1. AgentTypeOK'
      BY <2>2 DEF Start, Exited, Timeout, agent, AgentTypeOK
    <3>2. JobTypeOK'
      BY <2>2, PartsStay DEF Start, Exited, Timeout, JobTypeOK
    <3> QED
      BY <2>2, <3>1, <3>2, PartsStay DEF Start, Exited, Timeout
  <2>3. CASE NotStarted \/ Killed
    <3>1. AgentTypeOK'
      BY <2>3 DEF NotStarted, Killed, TryKill, Answers, agent, AgentTypeOK
    <3>2. JobTypeOK'
      BY <2>3, PartsStay DEF NotStarted, Killed, TryKill, JobTypeOK
    <3>3. SentTypeOK'
      BY <2>3, EmptyFits DEF NotStarted, Killed, TryKill, Answers, SentTypeOK
    <3> QED
      BY <2>3, <3>1, <3>2, <3>3, PartsStay DEF NotStarted, Killed, TryKill
  <2>4. CASE Exit \/ LetGo
    <3>1. AgentTypeOK'
      BY <2>4 DEF Exit, LetGo, agent, AgentTypeOK
    <3>2. JobTypeOK'
      BY <2>4 DEF Exit, LetGo, JobTypeOK
    <3> QED
      BY <2>4, <3>1, <3>2, PartsStay DEF Exit, LetGo
  <2>5. CASE Write
    <3> DEFINE s == Head(todo).stream
               c == Head(todo).char
    <3>1. s \in Streams /\ c \in Chars /\ todo' \in Seq(Writes)
      <4>1. Head(todo) \in Writes /\ Tail(todo) \in Seq(Writes)
        BY <2>5, HeadTailProperties DEF Write, JobTypeOK
      <4>2. OutChars \subseteq Chars /\ ErrChars \subseteq Chars
        BY CharsAssumption DEF Chars
      <4> QED
        BY <2>5, <4>1, <4>2 DEF Write, Writes, Streams
    <3>2. /\ Len(pipe[s]) < PipeSize
          /\ pipe' = [pipe EXCEPT ![s] = Append(@, c)]
          /\ wrote' = [wrote EXCEPT ![s] = Append(@, c)]
      BY <2>5 DEF Write
    <3> HIDE DEF s, c
    <3>3. pipe[s] \in Seq(Chars) /\ wrote[s] \in Seq(Chars)
      BY <3>1 DEF JobTypeOK
    <3>4. /\ Append(pipe[s], c) \in Seq(Chars) /\ Append(wrote[s], c) \in Seq(Chars)
          /\ Len(Append(pipe[s], c)) <= PipeSize
      BY <3>1, <3>2, <3>3, AppendProperties, LenProperties, LimitsAreNumbers
    <3>5. JobTypeOK'
      <4>1. process' = process /\ held' = held
        BY <2>5 DEF Write
      <4>2. pipe' \in [Streams -> Seq(Chars)] /\ wrote' \in [Streams -> Seq(Chars)]
        BY <3>2, <3>4 DEF JobTypeOK
      <4>3. \A x \in Streams : Len(pipe'[x]) <= PipeSize
        BY <3>2, <3>4 DEF JobTypeOK
      <4> QED
        BY <3>1, <4>1, <4>2, <4>3 DEF JobTypeOK
    <3> QED
      BY <2>5, <3>5 DEF Write, agent, AgentTypeOK, ReadTypeOK, SentTypeOK, AgentLimit
  <2>6. ASSUME NEW s \in Streams, Read(s)
        PROVE  AgentTypeOK' /\ ReadTypeOK' /\ JobTypeOK' /\ SentTypeOK'
    <3>1. pipe[s] \in Seq(Chars) /\ pipe[s] # <<>> /\ Len(pipe[s]) <= PipeSize
      BY <2>6 DEF Read, JobTypeOK
    <3>2. Head(pipe[s]) \in Chars /\ Tail(pipe[s]) \in Seq(Chars) /\ Len(Tail(pipe[s])) <= PipeSize
      BY <3>1, HeadTailProperties, LenProperties, LimitsAreNumbers
    <3>3. JobTypeOK'
      BY <2>6, <3>2 DEF Read, JobTypeOK
    <3>4. Bounded(AppendChar(capture[s], Head(pipe[s])))
      BY <3>2, AppendCharFields DEF Bounded, ReadTypeOK
    <3>5. ReadTypeOK'
      BY <2>6, <3>4 DEF Read, ReadTypeOK, Bounded, agent, AgentLimit
    <3> QED
      BY <2>6, <3>3, <3>5 DEF Read, agent, AgentTypeOK, SentTypeOK
  <2>7. ASSUME NEW s \in Streams, NEW how \in {"ended", "cancelled"}, Ends(s, how)
        PROVE  AgentTypeOK' /\ ReadTypeOK' /\ JobTypeOK' /\ SentTypeOK'
    <3>1. Bounded(Finish(capture[s]))
      BY FinishFields DEF Bounded, ReadTypeOK
    <3>2. ReadTypeOK'
      BY <2>7, <3>1 DEF Ends, ReadTypeOK, Bounded, agent, AgentLimit
    <3> QED
      BY <2>7, <3>2 DEF Ends, agent, job, AgentTypeOK, JobTypeOK, SentTypeOK
  <2>8. ASSUME NEW s \in Streams, EndOfStream(s) \/ CancelRead(s)
        PROVE  AgentTypeOK' /\ ReadTypeOK' /\ JobTypeOK' /\ SentTypeOK'
    BY <2>7, <2>8 DEF EndOfStream, CancelRead
  <2>9. CASE Report
    <3>1. sent' \in Results
      BY <2>9 DEF Report, Answers, Results, ReadTypeOK, Captures
    <3> QED
      BY <2>9, <3>1 DEF Report, Answers, agent, job, AgentTypeOK, ReadTypeOK, JobTypeOK,
                        SentTypeOK, AgentLimit
  <2>10. CASE HandleResult
    <3>1. stored' \in Results
      BY <2>10, EmptyFits, LimitOutputType DEF HandleResult, SentTypeOK
    <3> QED
      BY <2>10, <3>1 DEF HandleResult, agent, job, AgentTypeOK, ReadTypeOK, JobTypeOK,
                         SentTypeOK, AgentLimit
  <2> QED
    BY <2>1, <2>2, <2>3, <2>4, <2>5, <2>6, <2>8, <2>9, <2>10 DEF Next
<1> QED
  BY <1>1, <1>2, PTL DEF Spec

-----------------------------------------------------------------------------
(* An output that was read to its end and is not flagged is stored whole:  *)
(* the part of StoredFits that the callers of the result rely on.          *)
UnflaggedIsWhole ==
  stored.state = "Completed" =>
    \A s \in Streams : reader[s] = "ended" /\ ~stored.cut[s] => stored.text[s] = wrote[s]

(* As long as nothing was cut, what was written was read or is in the pipe. *)
NothingLost ==
  \A s \in Streams :
    ~capture[s].truncated => wrote[s] = ReadSoFar(capture[s]) \o pipe[s]

(* A stream that was read to its end stays as it is. *)
EndIsFinal ==
  /\ runner = "new" => process = "none"
  /\ \A s \in Streams :
       reader[s] = "ended" => /\ process \in {"exited", "killed"} /\ ~held
                              /\ pipe[s] = <<>> /\ ~capture[s].high

(* A result is the capture of streams that are no longer read. *)
ResultFits ==
  /\ sent.state # "none" => runner = "done"
  /\ sent.state = "Completed" =>
       \A s \in Streams : /\ reader[s] # "reading"
                          /\ sent.text[s] = capture[s].text
                          /\ sent.cut[s] = capture[s].truncated
  /\ stored.state = "Completed" => sent.state = "Completed" /\ stored = LimitOutput(sent)

LEMMA ReadSoFarIsSeq ==
  ASSUME NEW c \in Captures
  PROVE  ReadSoFar(c) \in Seq(Chars)
<1>1. c.text \in Seq(Chars) /\ Waiting(c) \in Seq(Chars)
  BY CharSeqs DEF Captures, Waiting, Chars
<1> QED
  BY <1>1, ConcatProperties DEF ReadSoFar

LEMMA HeadThenTail ==
  ASSUME NEW p \in Seq(Chars), p # <<>>
  PROVE  Head(p) \in Chars /\ Tail(p) \in Seq(Chars) /\ p = <<Head(p)>> \o Tail(p)
<1>1. /\ Head(p) \in Chars /\ Tail(p) \in Seq(Chars) /\ Len(Tail(p)) = Len(p) - 1
      /\ \A i \in 1..Len(Tail(p)) : Tail(p)[i] = p[i + 1]
      /\ Len(p) \in Nat /\ Len(p) # 0 /\ Head(p) = p[1]
  BY HeadTailProperties, EmptySeq, LenProperties
<1>2. <<Head(p)>> \in Seq(Chars) /\ Len(<<Head(p)>>) = 1 /\ <<Head(p)>>[1] = Head(p)
  BY <1>1, CharSeqs
<1> DEFINE q == <<Head(p)>> \o Tail(p)
<1>3. /\ q \in Seq(Chars) /\ Len(q) = 1 + Len(Tail(p))
      /\ \A i \in 1..(1 + Len(Tail(p))) : q[i] = IF i <= 1 THEN <<Head(p)>>[i] ELSE Tail(p)[i - 1]
  BY <1>1, <1>2, ConcatProperties
<1> HIDE DEF q
<1>4. \A i \in 1..Len(p) : p[i] = q[i]
  BY <1>1, <1>2, <1>3
<1>5. p = q
  BY <1>1, <1>3, <1>4, SeqEqual
<1> QED
  BY <1>1, <1>5 DEF q

LEMMA RegroupChar ==
  ASSUME NEW a \in Seq(Chars), NEW char \in Chars, NEW b \in Seq(Chars)
  PROVE  /\ (a \o <<char>>) \o b = a \o (<<char>> \o b)
         /\ (a \o b) \o <<char>> = a \o (b \o <<char>>)
<1>1. PICK one \in Seq(Chars) : one = <<char>>
  BY CharSeqs
<1>2. (a \o one) \o b = a \o (one \o b) /\ (a \o b) \o one = a \o (b \o one)
  BY ConcatAssociative
<1> QED
  BY <1>1, <1>2

LEMMA NothingLostHolds == Spec => []NothingLost
<1>1. Init => NothingLost
  <2>1. <<>> = (<<>> \o <<>>) \o <<>>
    BY CharSeqs, ConcatEmptySeq
  <2> QED
    BY <2>1 DEF Init, NothingLost, EmptyCapture, ReadSoFar, Waiting
<1>2. NothingLost /\ TypeOK /\ [Next]_vars => NothingLost'
  <2> SUFFICES ASSUME NothingLost, ReadTypeOK, JobTypeOK, [Next]_vars PROVE NothingLost'
    BY TypeParts
  <2>1. CASE UNCHANGED <<capture, pipe, wrote>>
    BY <2>1 DEF NothingLost
  <2>2. CASE Write
    <3> DEFINE s == Head(todo).stream
               c == Head(todo).char
    <3>1. s \in Streams /\ c \in Chars
      <4>1. Head(todo) \in Writes
        BY <2>2, HeadTailProperties DEF Write, JobTypeOK
      <4>2. OutChars \subseteq Chars /\ ErrChars \subseteq Chars
        BY CharsAssumption DEF Chars
      <4> QED
        BY <4>1, <4>2 DEF Writes, Streams
    <3>2. /\ pipe' = [pipe EXCEPT ![s] = Append(@, c)]
          /\ wrote' = [wrote EXCEPT ![s] = Append(@, c)]
          /\ capture' = capture
      BY <2>2 DEF Write
    <3> HIDE DEF s, c
    <3>3. ASSUME NEW x \in Streams, ~capture[x].truncated
          PROVE  wrote'[x] = ReadSoFar(capture[x]) \o pipe'[x]
      <4> DEFINE r == ReadSoFar(capture[x])
      <4>1. /\ r \in Seq(Chars) /\ pipe[x] \in Seq(Chars) /\ wrote[x] \in Seq(Chars)
            /\ wrote[x] = r \o pipe[x]
        BY <3>3, ReadSoFarIsSeq DEF NothingLost, ReadTypeOK, JobTypeOK
      <4> HIDE DEF r
      <4>2. CASE x = s
        <5>1. pipe'[x] = pipe[x] \o <<c>> /\ wrote'[x] = wrote[x] \o <<c>>
          <6>1. pipe'[x] = Append(pipe[x], c) /\ wrote'[x] = Append(wrote[x], c)
            BY <3>2, <4>2 DEF JobTypeOK
          <6> QED
            BY <3>1, <4>1, <6>1, AppendIsConcat
        <5>2. <<c>> \in Seq(Chars)
          BY <3>1, CharSeqs
        <5>3. r \in Seq(Chars) /\ pipe[x] \in Seq(Chars)
          BY <4>1
        <5>4. (r \o pipe[x]) \o <<c>> = r \o (pipe[x] \o <<c>>)
          BY <3>1, <5>3, RegroupChar
        <5> QED
          BY <4>1, <5>1, <5>4 DEF r
      <4>3. CASE x # s
        <5>1. pipe'[x] = pipe[x] /\ wrote'[x] = wrote[x]
          BY <3>2, <4>3 DEF JobTypeOK
        <5> QED
          BY <4>1, <5>1 DEF r
      <4> QED
        BY <4>2, <4>3
    <3> QED
      BY <3>2, <3>3 DEF NothingLost
  <2>3. ASSUME NEW s \in Streams, Read(s)
        PROVE  NothingLost'
    <3> DEFINE h == Head(pipe[s])
               d == AppendChar(capture[s], h)
               r == ReadSoFar(capture[s])
    <3>1. /\ h \in Chars /\ Tail(pipe[s]) \in Seq(Chars) /\ pipe[s] = <<h>> \o Tail(pipe[s])
          /\ pipe[s] \in Seq(Chars)
      BY <2>3, HeadThenTail DEF Read, JobTypeOK
    <3>2. ~d.truncated => ~capture[s].truncated /\ ReadSoFar(d) = r \o <<h>>
      BY <3>1, AppendCharFields DEF Bounded, ReadTypeOK
    <3>3. r \in Seq(Chars) /\ <<h>> \in Seq(Chars)
      BY <3>1, CharSeqs, ReadSoFarIsSeq DEF ReadTypeOK
    <3>4. /\ capture'[s] = d /\ pipe'[s] = Tail(pipe[s]) /\ wrote' = wrote
          /\ \A x \in Streams \ {s} : capture'[x] = capture[x] /\ pipe'[x] = pipe[x]
      BY <2>3 DEF Read, ReadTypeOK, JobTypeOK
    <3> HIDE DEF h, d, r
    <3>5. (r \o <<h>>) \o Tail(pipe[s]) = r \o (<<h>> \o Tail(pipe[s]))
      <4>1. Tail(pipe[s]) \in Seq(Chars)
        BY <3>1
      <4> QED
        BY <3>1, <3>3, <4>1, RegroupChar
    <3>6. ~capture'[s].truncated => wrote'[s] = ReadSoFar(capture'[s]) \o pipe'[s]
      <4>1. ~capture[s].truncated => wrote[s] = r \o pipe[s]
        BY DEF NothingLost, r
      <4> QED
        BY <3>1, <3>2, <3>4, <3>5, <4>1
    <3> QED
      BY <3>4, <3>6 DEF NothingLost
  <2>4. ASSUME NEW s \in Streams, NEW how, Ends(s, how)
        PROVE  NothingLost'
    <3> DEFINE d == Finish(capture[s])
    <3>1. ~d.high /\ (~d.truncated => ~capture[s].truncated /\ d.text = ReadSoFar(capture[s]))
          /\ Bounded(d)
      BY FinishFields DEF Bounded, ReadTypeOK
    <3>2. d.text \o <<>> = d.text
      BY <3>1, ConcatEmptySeq DEF Bounded, Captures
    <3>3. /\ capture'[s] = d /\ pipe' = pipe /\ wrote' = wrote
          /\ \A x \in Streams \ {s} : capture'[x] = capture[x]
      BY <2>4 DEF Ends, ReadTypeOK, job
    <3> HIDE DEF d
    <3>4. ~d.truncated => ReadSoFar(d) = ReadSoFar(capture[s])
      BY <3>1, <3>2 DEF ReadSoFar, Waiting
    <3> QED
      BY <3>1, <3>3, <3>4 DEF NothingLost
  <2>5. CASE Start \/ NotStarted \/ Exit \/ LetGo \/ Timeout \/ Exited \/ Killed \/ Report \/ HandleResult
    BY <2>1, <2>5 DEF Start, NotStarted, Exit, LetGo, Timeout, Exited, Killed, TryKill, Report,
                      HandleResult, job
  <2>6. ASSUME NEW s \in Streams, EndOfStream(s) \/ CancelRead(s)
        PROVE  NothingLost'
    BY <2>4, <2>6 DEF EndOfStream, CancelRead
  <2>7. CASE UNCHANGED vars
    BY <2>1, <2>7 DEF vars, job
  <2> QED
    BY <2>2, <2>3, <2>5, <2>6, <2>7 DEF Next
<1> QED
  BY <1>1, <1>2, TypeCorrect, PTL DEF Spec

LEMMA EndIsFinalHolds == Spec => []EndIsFinal
<1>1. Init => EndIsFinal
  BY DEF Init, EndIsFinal
<1>2. EndIsFinal /\ TypeOK /\ [Next]_vars => EndIsFinal'
  <2> SUFFICES ASSUME EndIsFinal, ReadTypeOK, JobTypeOK, [Next]_vars PROVE EndIsFinal'
    BY TypeParts
  <2>1. CASE UNCHANGED vars
    BY <2>1 DEF vars, job, EndIsFinal
  <2>2. CASE Start \/ NotStarted \/ Exited \/ Timeout \/ Killed
    BY <2>2 DEF Start, NotStarted, Exited, Timeout, Killed, TryKill, Answers, job, EndIsFinal
  <2>3. CASE Report \/ HandleResult
    BY <2>3 DEF Report, HandleResult, Answers, job, EndIsFinal
  <2>4. CASE Write \/ Exit \/ LetGo
    BY <2>4 DEF Write, Exit, LetGo, EndIsFinal
  <2>5. ASSUME NEW s \in Streams, Read(s)
        PROVE  EndIsFinal'
    <3>1. /\ UNCHANGED <<runner, reader, process, held>>
          /\ reader[s] = "reading"
          /\ \A x \in Streams \ {s} : pipe'[x] = pipe[x] /\ capture'[x] = capture[x]
      BY <2>5 DEF Read, Reads, ReadTypeOK, JobTypeOK
    <3> QED
      BY <3>1 DEF EndIsFinal
  <2>6. ASSUME NEW s \in Streams, EndOfStream(s) \/ CancelRead(s)
        PROVE  EndIsFinal'
    <3>1. ~Finish(capture[s]).high
      BY FinishFields DEF Bounded, ReadTypeOK
    <3>2. /\ UNCHANGED <<runner, process, held, pipe>>
          /\ capture'[s] = Finish(capture[s])
          /\ reader'[s] = "ended" => process \in {"exited", "killed"} /\ ~held /\ pipe[s] = <<>>
          /\ \A x \in Streams \ {s} : reader'[x] = reader[x] /\ capture'[x] = capture[x]
      BY <2>6 DEF EndOfStream, CancelRead, Ends, job, ReadTypeOK
    <3> QED
      BY <3>1, <3>2 DEF EndIsFinal
  <2> QED
    BY <2>1, <2>2, <2>3, <2>4, <2>5, <2>6 DEF Next
<1> QED
  BY <1>1, <1>2, TypeCorrect, PTL DEF Spec

LEMMA ResultFitsHolds == Spec => []ResultFits
<1>1. Init => ResultFits
  BY EmptyFits DEF Init, ResultFits, NoResult
<1>2. ResultFits /\ TypeOK /\ [Next]_vars => ResultFits'
  <2> SUFFICES ASSUME ResultFits, ReadTypeOK, SentTypeOK, [Next]_vars PROVE ResultFits'
    BY TypeParts
  <2>1. CASE UNCHANGED vars
    BY <2>1 DEF vars, ResultFits
  <2>2. CASE Start \/ Exited \/ Timeout \/ Write \/ Exit \/ LetGo
    BY <2>2 DEF Start, Exited, Timeout, Write, Exit, LetGo, ResultFits
  <2>3. CASE NotStarted \/ Killed
    BY <2>3, EmptyFits DEF NotStarted, Killed, TryKill, Answers, ResultFits
  <2>4. CASE Report
    BY <2>4 DEF Report, Answers, ResultFits
  <2>5. ASSUME NEW s \in Streams, Read(s) \/ EndOfStream(s) \/ CancelRead(s)
        PROVE  ResultFits'
    <3>1. UNCHANGED <<runner, sent, stored>> /\ reader[s] = "reading"
      BY <2>5 DEF Read, Reads, EndOfStream, CancelRead, Cancellable, Ends
    <3> QED
      BY <3>1 DEF ResultFits
  <2>6. CASE HandleResult
    <3>1. LimitOutput(sent).state = sent.state
      BY DEF LimitOutput, SentTypeOK, Results
    <3>2. UNCHANGED <<runner, reader, capture, sent>>
      BY <2>6 DEF HandleResult
    <3>3. stored' = LimitOutput(sent) \/ stored'.state = "Failed"
      BY <2>6, EmptyFits DEF HandleResult
    <3> QED
      BY <3>1, <3>2, <3>3 DEF ResultFits
  <2> QED
    BY <2>1, <2>2, <2>3, <2>4, <2>5, <2>6 DEF Next
<1> QED
  BY <1>1, <1>2, TypeCorrect, PTL DEF Spec

(* What is stored without the flag, of a stream that was read to its end,  *)
(* is what the script wrote to it, whatever its size, the limits and the   *)
(* order in which the streams were written and read.                       *)
THEOREM UnflaggedIsComplete == Spec => []UnflaggedIsWhole
<1>1. NothingLost /\ EndIsFinal /\ ResultFits /\ TypeOK => UnflaggedIsWhole
  <2> SUFFICES ASSUME NothingLost, EndIsFinal, ResultFits, ReadTypeOK, SentTypeOK,
                      stored.state = "Completed", NEW s \in Streams,
                      reader[s] = "ended", ~stored.cut[s]
               PROVE  stored.text[s] = wrote[s]
    BY TypeParts DEF UnflaggedIsWhole
  <2>1. /\ sent \in Results /\ stored = LimitOutput(sent)
        /\ sent.text[s] = capture[s].text /\ sent.cut[s] = capture[s].truncated
    BY DEF ResultFits, SentTypeOK
  <2>2. /\ stored.text[s] = CutTo(sent.text[s], Limit)
        /\ stored.cut[s] = (sent.cut[s] \/ TooLong(sent.text[s], Limit))
    BY <2>1 DEF LimitOutput, Results
  <2>3. ~TooLong(sent.text[s], Limit) /\ ~capture[s].truncated
    BY <2>1, <2>2
  <2>4. capture[s].text \in Seq(Chars)
    BY DEF ReadTypeOK, Captures
  <2>5. stored.text[s] = capture[s].text
    BY <2>1, <2>2, <2>3, <2>4, ShortIsKept
  <2>6. pipe[s] = <<>> /\ ~capture[s].high
    BY DEF EndIsFinal
  <2>7. wrote[s] = (capture[s].text \o <<>>) \o <<>>
    BY <2>3, <2>6 DEF NothingLost, ReadSoFar, Waiting
  <2>8. capture[s].text \o <<>> = capture[s].text
    BY <2>4, ConcatEmptySeq
  <2> QED
    BY <2>5, <2>7, <2>8
<1> QED
  BY <1>1, NothingLostHolds, EndIsFinalHolds, ResultFitsHolds, TypeCorrect, PTL

-----------------------------------------------------------------------------
(* What Bytes adds up.  The fold takes the positions in an order of its     *)
(* own; the sum does not depend on it.                                     *)

(* The position that the fold takes next. *)
Taken(s) == CHOOSE x \in s : TRUE

(* g sums the weights w over every set of the first n positions. *)
Sums(g, w, n) ==
  /\ g \in [SUBSET (1..n) -> Nat]
  /\ g[{}] = 0
  /\ \A s \in SUBSET (1..n) : \A x \in s : g[s] = w[x] + g[s \ {x}]

Sizes(text) == [i \in 1..Len(text) |-> SizeAt(text, i)]

(* Induction, for a set of numbers. *)
LEMMA ReachesAll ==
  ASSUME NEW S \in SUBSET Nat, 0 \in S, \A n \in S : n + 1 \in S
  PROVE  S = Nat
<1> SUFFICES ASSUME Nat \ S # {} PROVE FALSE
  OBVIOUS
<1>1. PICK n \in Nat \ S : \A y \in Nat \ S : ~ (<<y, n>> \in OpToRel(<, Nat))
  BY NatLessThanWellFounded, WFMin, Zenon
<1>2. n # 0 /\ n - 1 \in Nat /\ n - 1 < n
  OBVIOUS
<1>3. n - 1 \in S
  BY <1>1, <1>2 DEF OpToRel
<1>4. (n - 1) + 1 \in S /\ (n - 1) + 1 = n
  BY <1>3
<1> QED
  BY <1>4

(* A set of numbers that is not empty has a least. *)
LEMMA LeastExists ==
  ASSUME NEW T \in SUBSET Nat, T # {}
  PROVE  \E x \in T : \A y \in T : x <= y
<1>1. PICK x \in T : \A y \in T : ~ (<<y, x>> \in OpToRel(<, Nat))
  BY NatLessThanWellFounded, WFMin, Zenon
<1>2. \A y \in T : ~ (y < x)
  BY <1>1 DEF OpToRel
<1>3. \A y \in T : x <= y
  <2> SUFFICES ASSUME NEW y \in T PROVE x <= y
    OBVIOUS
  <2>1. x \in Nat /\ y \in Nat /\ ~ (y < x)
    BY <1>2
  <2> QED
    BY <2>1
<1> QED
  BY <1>3

LEMMA SumsExist ==
  ASSUME NEW N \in Nat, NEW w \in [1..N -> Nat]
  PROVE  \A n \in 0..N : \E g : Sums(g, w, n)
<1> DEFINE S == {n \in Nat : n <= N => \E g : Sums(g, w, n)}
<1>1. 0 \in S
  <2> DEFINE g == [s \in SUBSET (1..0) |-> 0]
  <2>1. Sums(g, w, 0)
    BY DEF Sums
  <2> QED
    BY <2>1
<1>2. ASSUME NEW n \in S
      PROVE  n + 1 \in S
  <2> SUFFICES ASSUME n + 1 <= N PROVE \E g : Sums(g, w, n + 1)
    OBVIOUS
  <2>1. PICK f : Sums(f, w, n)
    OBVIOUS
  <2> DEFINE last(s) == IF n + 1 \in s THEN w[n + 1] ELSE 0
             g == [s \in SUBSET (1..(n + 1)) |-> f[s \ {n + 1}] + last(s)]
  <2>2. \A s \in SUBSET (1..(n + 1)) : s \ {n + 1} \in SUBSET (1..n)
    OBVIOUS
  <2>3. w[n + 1] \in Nat
    OBVIOUS
  <2>4. g \in [SUBSET (1..(n + 1)) -> Nat]
    <3>1. \A s \in SUBSET (1..(n + 1)) : f[s \ {n + 1}] \in Nat /\ last(s) \in Nat
      BY <2>1, <2>2, <2>3 DEF Sums
    <3>2. \A a, b \in Nat : a + b \in Nat
      OBVIOUS
    <3>3. \A s \in SUBSET (1..(n + 1)) : f[s \ {n + 1}] + last(s) \in Nat
      <4> HIDE DEF last
      <4> QED
        BY <3>1, <3>2, Zenon
    <3> QED
      BY <3>3
  <2>5. g[{}] = 0
    <3>1. {} \in SUBSET (1..(n + 1)) /\ {} \ {n + 1} = {}
      OBVIOUS
    <3> QED
      BY <2>1, <3>1 DEF Sums
  <2>6. ASSUME NEW s \in SUBSET (1..(n + 1)), NEW x \in s
        PROVE  g[s] = w[x] + g[s \ {x}]
    <3>1. s \ {x} \in SUBSET (1..(n + 1))
      OBVIOUS
    <3>2. g[s] = f[s \ {n + 1}] + last(s) /\ g[s \ {x}] = f[(s \ {x}) \ {n + 1}] + last(s \ {x})
      BY <3>1
    <3>3. f[s \ {n + 1}] \in Nat
      BY <2>1, <2>2 DEF Sums
    <3> HIDE DEF g
    <3>4. CASE x = n + 1
      <4>1. (s \ {x}) \ {n + 1} = s \ {n + 1} /\ last(s) = w[x] /\ last(s \ {x}) = 0
        BY <3>4
      <4>2. w[x] \in Nat
        BY <2>3, <3>4
      <4> HIDE DEF last
      <4>3. g[s] = f[s \ {n + 1}] + w[x] /\ g[s \ {x}] = f[s \ {n + 1}] + 0
        BY <3>2, <4>1
      <4> QED
        BY <3>3, <4>2, <4>3
    <3>5. CASE x # n + 1
      <4>1. (s \ {x}) \ {n + 1} = (s \ {n + 1}) \ {x} /\ last(s) = last(s \ {x}) /\ last(s) \in Nat
        BY <2>3, <3>5
      <4>2. x \in s \ {n + 1} /\ w[x] \in Nat
        BY <3>5
      <4>3. f[s \ {n + 1}] = w[x] + f[(s \ {n + 1}) \ {x}]
        BY <2>1, <2>2, <4>2 DEF Sums
      <4>4. f[(s \ {n + 1}) \ {x}] \in Nat
        BY <2>1, <2>2 DEF Sums
      <4> HIDE DEF last
      <4>5. /\ g[s] = (w[x] + f[(s \ {n + 1}) \ {x}]) + last(s)
            /\ g[s \ {x}] = f[(s \ {n + 1}) \ {x}] + last(s)
        BY <3>2, <4>1, <4>3
      <4> QED
        BY <4>1, <4>2, <4>4, <4>5
    <3> QED
      BY <3>4, <3>5
  <2>7. Sums(g, w, n + 1)
    BY <2>4, <2>5, <2>6 DEF Sums
  <2> QED
    BY <2>7
<1>3. S = Nat
  <2> HIDE DEF S
  <2>1. S \in SUBSET Nat
    BY DEF S
  <2> QED
    BY <1>1, <1>2, <2>1, ReachesAll
<1> QED
  <2> SUFFICES ASSUME NEW n \in 0..N PROVE \E g : Sums(g, w, n)
    OBVIOUS
  <2>1. n \in S
    <3> HIDE DEF S
    <3> QED
      BY <1>3
  <2> QED
    BY <2>1

(* The fold, whatever it takes next, comes to the same sum.                *)
LEMMA FoldIsSum ==
  ASSUME NEW n \in Nat, NEW w \in [1..n -> Nat], NEW g, Sums(g, w, n), NEW f,
         \A s \in SUBSET (1..n) :
           f[s] = IF s = {} THEN 0 ELSE w[Taken(s)] + f[s \ {Taken(s)}]
  PROVE  f[1..n] = g[1..n]
<1> DEFINE ones == [i \in 1..n |-> 1]
<1>1. PICK count : Sums(count, ones, n)
  <2>1. ones \in [1..n -> Nat] /\ n \in 0..n
    OBVIOUS
  <2> HIDE DEF ones
  <2> QED
    BY <2>1, SumsExist
<1> DEFINE wrong == {s \in SUBSET (1..n) : f[s] # g[s]}
<1> SUFFICES ASSUME wrong # {} PROVE FALSE
  OBVIOUS
<1> DEFINE T == {count[s] : s \in wrong}
<1>2. PICK s \in wrong : \A r \in wrong : count[s] <= count[r]
  <2>1. T \in SUBSET Nat /\ T # {}
    <3>1. count \in [SUBSET (1..n) -> Nat] /\ wrong \subseteq SUBSET (1..n)
      BY <1>1 DEF Sums
    <3>2. \A s \in wrong : count[s] \in Nat
      BY <3>1
    <3> HIDE DEF wrong
    <3> QED
      BY <3>2
  <2>2. PICK x \in T : \A y \in T : x <= y
    <3> HIDE DEF T
    <3> QED
      BY <2>1, LeastExists
  <2>3. PICK s \in wrong : x = count[s]
    <3> HIDE DEF wrong
    <3> QED
      OBVIOUS
  <2>4. \A r \in wrong : count[r] \in T
    <3> HIDE DEF wrong
    <3> QED
      OBVIOUS
  <2> HIDE DEF wrong, T
  <2> QED
    BY <2>2, <2>3, <2>4
<1>3. s \in SUBSET (1..n) /\ f[s] # g[s]
  BY <1>2
<1>4. f[s] = IF s = {} THEN 0 ELSE w[Taken(s)] + f[s \ {Taken(s)}]
  BY <1>3
<1>5. s # {}
  BY <1>3, <1>4 DEF Sums
<1>6. Taken(s) \in s
  BY <1>5 DEF Taken
<1>7. count[s] = 1 + count[s \ {Taken(s)}] /\ count[s \ {Taken(s)}] \in Nat
  <2>1. ones[Taken(s)] = 1
    BY <1>3, <1>6
  <2> HIDE DEF ones
  <2> QED
    BY <1>1, <1>3, <1>6, <2>1 DEF Sums
<1>8. s \ {Taken(s)} \notin wrong
  <2>1. count[s] \in Nat /\ ~ (count[s] <= count[s \ {Taken(s)}])
    <3> DEFINE k == count[s \ {Taken(s)}]
    <3>1. k \in Nat /\ count[s] = 1 + k
      BY <1>7
    <3> HIDE DEF k
    <3>2. ~ (1 + k <= k) /\ 1 + k \in Nat
      BY <3>1
    <3> QED
      BY <3>1, <3>2 DEF k
  <2> QED
    BY <1>2, <2>1
<1>9. f[s \ {Taken(s)}] = g[s \ {Taken(s)}]
  BY <1>3, <1>8
<1>10. g[s] = w[Taken(s)] + g[s \ {Taken(s)}]
  BY <1>3, <1>6 DEF Sums
<1> QED
  BY <1>3, <1>4, <1>5, <1>9, <1>10

LEMMA SizesAreNumbers ==
  ASSUME NEW text
  PROVE  Sizes(text) \in [1..Len(text) -> Nat]
BY DEF Sizes, SizeAt, Utf8Length

LEMMA BytesIsSum ==
  ASSUME NEW text \in Seq(Chars), NEW g, Sums(g, Sizes(text), Len(text))
  PROVE  Bytes(text) = g[1..Len(text)]
<1> DEFINE n == Len(text)
           Fold(h) == [s \in SUBSET (1..n) |->
                         IF s = {} THEN 0 ELSE SizeAt(text, Taken(s)) + h[s \ {Taken(s)}]]
           f == CHOOSE h : h = Fold(h)
<1>1. DOMAIN text = 1..n /\ n \in Nat
  OBVIOUS
<1>2. Bytes(text) = f[1..n]
  <2>1. Bytes(text) = (CHOOSE h : h = [s \in SUBSET DOMAIN text |->
          IF s = {} THEN 0 ELSE SizeAt(text, Taken(s)) + h[s \ {Taken(s)}]])[DOMAIN text]
    BY DEF Bytes, MapThenSumSet, MapThenFoldSet, Taken
  <2> QED
    BY <1>1, <2>1
<1>3. \A s \in SUBSET (1..n) : s # {} => Taken(s) \in s
  BY DEF Taken
<1>4. g = Fold(g)
  <2>1. \A s \in SUBSET (1..n) :
          g[s] = IF s = {} THEN 0 ELSE SizeAt(text, Taken(s)) + g[s \ {Taken(s)}]
    BY <1>3 DEF Sums, Sizes
  <2>2. g \in [SUBSET (1..n) -> Nat]
    BY DEF Sums
  <2> QED
    BY <2>1, <2>2
<1>5. f = Fold(f)
  <2> HIDE DEF Fold
  <2> QED
    BY <1>4
<1>6. \A s \in SUBSET (1..n) :
        f[s] = IF s = {} THEN 0 ELSE Sizes(text)[Taken(s)] + f[s \ {Taken(s)}]
  <2> HIDE DEF f
  <2>1. \A s \in SUBSET (1..n) : s # {} => Sizes(text)[Taken(s)] = SizeAt(text, Taken(s))
    BY <1>3 DEF Sizes
  <2> QED
    BY <1>5, <2>1
<1>7. Sizes(text) \in [1..n -> Nat]
  BY SizesAreNumbers
<1> HIDE DEF f, n
<1>8. Sums(g, Sizes(text), n)
  BY DEF n
<1>9. f[1..n] = g[1..n]
  <2>1. n \in Nat
    BY <1>1
  <2> HIDE DEF Fold
  <2> QED
    BY <2>1, <1>6, <1>7, <1>8, FoldIsSum
<1> QED
  BY <1>2, <1>9 DEF n

(* Sums of equal weights are equal. *)
LEMMA BytesOfBeginning ==
  ASSUME NEW n \in Nat, NEW w \in [1..n -> Nat], NEW g, Sums(g, w, n),
         NEW text \in Seq(Chars), Len(text) <= n,
         \A i \in 1..Len(text) : SizeAt(text, i) = w[i]
  PROVE  Bytes(text) = g[1..Len(text)]
<1> DEFINE m == Len(text)
           h == [s \in SUBSET (1..m) |-> g[s]]
<1>1. m \in Nat /\ m <= n
  OBVIOUS
<1>2. \A s \in SUBSET (1..m) : s \in SUBSET (1..n)
  BY <1>1
<1>3. \A i \in 1..m : Sizes(text)[i] = w[i]
  BY DEF Sizes
<1> HIDE DEF m
<1>4. Sums(h, Sizes(text), m)
  <2>1. h \in [SUBSET (1..m) -> Nat] /\ h[{}] = 0
    BY <1>2 DEF Sums
  <2>2. ASSUME NEW s \in SUBSET (1..m), NEW x \in s
        PROVE  h[s] = Sizes(text)[x] + h[s \ {x}]
    <3>1. h[s] = g[s] /\ h[s \ {x}] = g[s \ {x}] /\ Sizes(text)[x] = w[x]
      BY <1>3
    <3> HIDE DEF h
    <3> QED
      BY <1>2, <3>1 DEF Sums
  <2> QED
    BY <2>1, <2>2 DEF Sums
<1>5. Bytes(text) = h[1..m]
  <2> HIDE DEF h
  <2> QED
    BY <1>4, BytesIsSum DEF m
<1> QED
  BY <1>5 DEF m

LEMMA SomeSum ==
  ASSUME NEW text \in Seq(Chars)
  PROVE  \E g : Sums(g, Sizes(text), Len(text))
<1>1. Sizes(text) \in [1..Len(text) -> Nat] /\ Len(text) \in 0..Len(text) /\ Len(text) \in Nat
  BY SizesAreNumbers
<1> QED
  BY <1>1, SumsExist

LEMMA BytesIsNumber ==
  ASSUME NEW text \in Seq(Chars)
  PROVE  Bytes(text) \in Nat
<1>1. PICK g : Sums(g, Sizes(text), Len(text))
  BY SomeSum
<1>2. Bytes(text) = g[1..Len(text)]
  BY <1>1, BytesIsSum
<1> QED
  BY <1>1, <1>2 DEF Sums

LEMMA BytesOfNothing == Bytes(<<>>) = 0
<1>1. <<>> \in Seq(Chars) /\ Len(<<>>) = 0
  OBVIOUS
<1>2. PICK g : Sums(g, Sizes(<<>>), 0)
  BY <1>1, SomeSum
<1>3. Bytes(<<>>) = g[1..0]
  BY <1>1, <1>2, BytesIsSum
<1>4. 1..0 = {}
  OBVIOUS
<1> QED
  BY <1>2, <1>3, <1>4 DEF Sums

(* The last of n + 1 weights is added to the sum of the others. *)
LEMMA LastWeight ==
  ASSUME NEW n \in Nat, NEW m \in 0..n, NEW w, NEW g, Sums(g, w, n + 1)
  PROVE  g[1..(m + 1)] = w[m + 1] + g[1..m]
<1>1. 1..(m + 1) \in SUBSET (1..(n + 1)) /\ m + 1 \in 1..(m + 1)
  OBVIOUS
<1>2. (1..(m + 1)) \ {m + 1} = 1..m
  OBVIOUS
<1>3. g[1..(m + 1)] = w[m + 1] + g[(1..(m + 1)) \ {m + 1}]
  BY <1>1, Zenon DEF Sums
<1> QED
  BY <1>2, <1>3

(* One more character, which does not complete a surrogate pair ... *)
LEMMA BytesOfAppend ==
  ASSUME NEW text \in Seq(Chars), NEW c \in Chars,
         ~ (Len(text) > 0 /\ text[Len(text)] = "h" /\ c = "l")
  PROVE  Bytes(Append(text, c)) = Bytes(text) + Utf8Length(c)
<1> DEFINE n == Len(text)
           longer == Append(text, c)
<1>1. n \in Nat /\ longer \in Seq(Chars) /\ Len(longer) = n + 1
      /\ (\A i \in 1..n : longer[i] = text[i]) /\ longer[n + 1] = c
  BY AppendProperties
<1> HIDE DEF longer
<1>2. \A i \in 1..n : SizeAt(text, i) = SizeAt(longer, i)
  BY <1>1 DEF SizeAt, PairAt
<1>3. SizeAt(longer, n + 1) = Utf8Length(c)
  BY <1>1 DEF SizeAt, PairAt
<1>4. PICK g : Sums(g, Sizes(longer), n + 1)
  BY <1>1, SomeSum
<1>5. Sizes(longer) \in [1..(n + 1) -> Nat]
  BY <1>1, SizesAreNumbers
<1>6. \A i \in 1..(n + 1) : Sizes(longer)[i] = SizeAt(longer, i)
  BY <1>1 DEF Sizes
<1>7. Bytes(longer) = g[1..(n + 1)]
  BY <1>1, <1>4, BytesIsSum
<1>8. Bytes(text) = g[1..n]
  <2>1. n + 1 \in Nat /\ Len(text) <= n + 1 /\ \A i \in 1..Len(text) : SizeAt(text, i) = Sizes(longer)[i]
    BY <1>1, <1>2, <1>6
  <2> QED
    BY <1>4, <1>5, <2>1, BytesOfBeginning
<1>9. g[1..(n + 1)] = Utf8Length(c) + g[1..n]
  <2>1. n + 1 \in 1..(n + 1) /\ n \in 0..n
    BY <1>1
  <2>2. Sizes(longer)[n + 1] = Utf8Length(c)
    BY <1>3, <1>6, <2>1
  <2> QED
    BY <1>1, <1>4, <2>1, <2>2, LastWeight
<1>10. Bytes(text) \in Nat /\ Utf8Length(c) \in Nat
  BY BytesIsNumber DEF Utf8Length
<1> QED
  BY <1>7, <1>8, <1>9, <1>10 DEF longer

(* ... and one that does. *)
LEMMA BytesOfPair ==
  ASSUME NEW text \in Seq(Chars)
  PROVE  Bytes(Append(Append(text, "h"), "l")) = Bytes(text) + 4
<1> DEFINE n == Len(text)
           half == Append(text, "h")
           longer == Append(half, "l")
<1>1. n \in Nat /\ half \in Seq(Chars) /\ Len(half) = n + 1
      /\ (\A i \in 1..n : half[i] = text[i]) /\ half[n + 1] = "h"
  BY AppendProperties DEF Chars
<1> HIDE DEF half
<1>2. longer \in Seq(Chars) /\ Len(longer) = n + 2
      /\ (\A i \in 1..n : longer[i] = text[i]) /\ longer[n + 1] = "h" /\ longer[n + 2] = "l"
  <2>1. "l" \in Chars
    BY DEF Chars
  <2>2. longer \in Seq(Chars) /\ Len(longer) = (n + 1) + 1
        /\ (\A i \in 1..(n + 1) : longer[i] = half[i]) /\ longer[(n + 1) + 1] = "l"
    BY <1>1, <2>1, AppendProperties
  <2> HIDE DEF longer
  <2> QED
    BY <1>1, <2>2
<1> HIDE DEF longer
<1>3. \A i \in 1..n : SizeAt(text, i) = SizeAt(longer, i)
  BY <1>1, <1>2 DEF SizeAt, PairAt
<1>4. SizeAt(longer, n + 1) = 4 /\ SizeAt(longer, n + 2) = 0
  <2>1. PairAt(longer, n + 1) /\ ~PairAt(longer, n + 2)
    BY <1>1, <1>2 DEF PairAt
  <2>2. n + 2 > 1 /\ (n + 2) - 1 = n + 1
    BY <1>1
  <2> QED
    BY <2>1, <2>2 DEF SizeAt
<1>5. PICK g : Sums(g, Sizes(longer), n + 2)
  BY <1>2, SomeSum
<1>6. Sizes(longer) \in [1..(n + 2) -> Nat]
  BY <1>2, SizesAreNumbers
<1>7. \A i \in 1..(n + 2) : Sizes(longer)[i] = SizeAt(longer, i)
  BY <1>2 DEF Sizes
<1>8. Bytes(longer) = g[1..(n + 2)]
  BY <1>2, <1>5, BytesIsSum
<1>9. Bytes(text) = g[1..n]
  <2>1. n + 2 \in Nat /\ Len(text) <= n + 2 /\ \A i \in 1..Len(text) : SizeAt(text, i) = Sizes(longer)[i]
    BY <1>1, <1>3, <1>7
  <2> QED
    BY <1>5, <1>6, <2>1, BytesOfBeginning
<1>10. g[1..(n + 2)] = 0 + g[1..(n + 1)] /\ g[1..(n + 1)] = 4 + g[1..n]
  <2>1. /\ (n + 1) + 1 = n + 2 /\ n + 1 \in Nat /\ n \in 0..(n + 1) /\ n + 1 \in 0..(n + 1)
        /\ n + 1 \in 1..(n + 2) /\ n + 2 \in 1..(n + 2)
    BY <1>1
  <2>2. Sizes(longer)[n + 1] = 4 /\ Sizes(longer)[n + 2] = 0
    BY <1>4, <1>7, <2>1
  <2>3. Sums(g, Sizes(longer), (n + 1) + 1)
    BY <1>5, <2>1
  <2>4. \A m \in 0..(n + 1) : g[1..(m + 1)] = Sizes(longer)[m + 1] + g[1..m]
    BY <2>1, <2>3, LastWeight
  <2> QED
    BY <2>1, <2>2, <2>4
<1>11. Bytes(text) \in Nat
  BY BytesIsNumber
<1> QED
  BY <1>8, <1>9, <1>10, <1>11 DEF longer, half

-----------------------------------------------------------------------------
(* The beginnings of a text                                                *)

Beginning(text, n) == SubSeq(text, 1, n)

LEMMA BeginningElements ==
  ASSUME NEW text \in Seq(Chars), NEW n \in 0..Len(text)
  PROVE  /\ Beginning(text, n) \in Seq(Chars)
         /\ Len(Beginning(text, n)) = n
         /\ \A i \in 1..n : Beginning(text, n)[i] = text[i] /\ text[i] \in Chars
<1>1. Len(text) \in Nat
  BY LenProperties
<1>2. \A i \in 1..n : text[i] \in Chars
  BY <1>1, ElementOfSeq
<1>3. 1 \in Int /\ n \in Int
  BY <1>1
<1>4. /\ SubSeq(text, 1, n) \in Seq(Chars)
      /\ Len(SubSeq(text, 1, n)) = IF 1 <= n THEN n - 1 + 1 ELSE 0
      /\ \A i \in 1..(n - 1 + 1) : SubSeq(text, 1, n)[i] = text[1 + i - 1]
  BY <1>2, <1>3, SubSeqProperties
<1> QED
  BY <1>1, <1>2, <1>4 DEF Beginning

(* A text that agrees with another on its first characters begins it. *)
LEMMA BeginningIs ==
  ASSUME NEW text \in Seq(Chars), NEW n \in 0..Len(text), NEW t \in Seq(Chars),
         Len(t) = n, \A i \in 1..n : t[i] = text[i]
  PROVE  t = Beginning(text, n)
<1>1. /\ Beginning(text, n) \in Seq(Chars) /\ Len(Beginning(text, n)) = Len(t)
      /\ \A i \in 1..Len(t) : t[i] = Beginning(text, n)[i]
  BY BeginningElements
<1> QED
  BY <1>1, SeqEqual

LEMMA NextBeginning ==
  ASSUME NEW text \in Seq(Chars), NEW n \in 0..(Len(text) - 1)
  PROVE  Beginning(text, n + 1) = Append(Beginning(text, n), text[n + 1])
<1>1. Len(text) \in Nat /\ n \in 0..Len(text) /\ n + 1 \in 0..Len(text) /\ n + 1 \in 1..(n + 1)
  BY LenProperties
<1>2. /\ Beginning(text, n) \in Seq(Chars) /\ Len(Beginning(text, n)) = n
      /\ \A i \in 1..n : Beginning(text, n)[i] = text[i]
  BY <1>1, BeginningElements
<1>3. text[n + 1] \in Chars
  BY <1>1, BeginningElements
<1> DEFINE t == Append(Beginning(text, n), text[n + 1])
<1>4. /\ t \in Seq(Chars) /\ Len(t) = n + 1
      /\ \A i \in 1..n : t[i] = text[i]
      /\ t[n + 1] = text[n + 1]
  BY <1>2, <1>3, AppendProperties
<1> HIDE DEF t
<1>5. \A i \in 1..(n + 1) : t[i] = text[i]
  BY <1>1, <1>4
<1>6. t = Beginning(text, n + 1)
  BY <1>1, <1>4, <1>5, BeginningIs
<1> QED
  BY <1>6 DEF t

LEMMA BeginningOfBeginning ==
  ASSUME NEW text \in Seq(Chars), NEW n \in 0..Len(text), NEW m \in 0..n
  PROVE  Beginning(Beginning(text, n), m) = Beginning(text, m)
<1> DEFINE b == Beginning(text, n)
<1>1. Len(text) \in Nat /\ m \in 0..Len(text)
  BY LenProperties
<1>2. b \in Seq(Chars) /\ Len(b) = n /\ \A i \in 1..n : b[i] = text[i]
  BY BeginningElements
<1> HIDE DEF b
<1>3. /\ Beginning(b, m) \in Seq(Chars) /\ Len(Beginning(b, m)) = m
      /\ \A i \in 1..m : Beginning(b, m)[i] = b[i]
  BY <1>2, BeginningElements
<1>4. \A i \in 1..m : b[i] = text[i]
  BY <1>1, <1>2
<1>5. \A i \in 1..m : Beginning(b, m)[i] = text[i]
  BY <1>3, <1>4
<1> QED
  BY <1>1, <1>3, <1>5, BeginningIs DEF b

LEMMA BeginningOfAppend ==
  ASSUME NEW text \in Seq(Chars), NEW n \in 0..Len(text), NEW c \in Chars
  PROVE  /\ Beginning(Append(text, c), n) = Beginning(text, n)
         /\ \A i \in 1..Len(text) : Append(text, c)[i] = text[i]
         /\ Append(text, c) \in Seq(Chars)
         /\ Len(Append(text, c)) = Len(text) + 1
<1>1. /\ Append(text, c) \in Seq(Chars) /\ Len(Append(text, c)) = Len(text) + 1
      /\ \A i \in 1..Len(text) : Append(text, c)[i] = text[i]
      /\ Len(text) \in Nat
  BY AppendProperties, LenProperties
<1> DEFINE t == Append(text, c)
<1>2. t \in Seq(Chars) /\ n \in 0..Len(t) /\ \A i \in 1..n : t[i] = text[i]
  BY <1>1
<1> HIDE DEF t
<1>3. /\ Beginning(t, n) \in Seq(Chars) /\ Len(Beginning(t, n)) = n
      /\ \A i \in 1..n : Beginning(t, n)[i] = t[i]
  BY <1>2, BeginningElements
<1>4. \A i \in 1..n : Beginning(t, n)[i] = text[i]
  BY <1>2, <1>3
<1>5. Beginning(t, n) = Beginning(text, n)
  BY <1>3, <1>4, BeginningIs
<1> QED
  BY <1>1, <1>5 DEF t

(* What the next character adds. *)
LEMMA NextBytes ==
  ASSUME NEW text \in Seq(Chars), NEW n \in 0..(Len(text) - 1),
         ~ (n > 0 /\ text[n] = "h" /\ text[n + 1] = "l")
  PROVE  Bytes(Beginning(text, n + 1)) = Bytes(Beginning(text, n)) + Utf8Length(text[n + 1])
<1>1. Len(text) \in Nat /\ n \in 0..Len(text) /\ n + 1 \in 0..Len(text) /\ n + 1 \in 1..(n + 1)
  BY LenProperties
<1>2. /\ Beginning(text, n) \in Seq(Chars) /\ Len(Beginning(text, n)) = n
      /\ \A i \in 1..n : Beginning(text, n)[i] = text[i]
      /\ text[n + 1] \in Chars
  BY <1>1, BeginningElements
<1>3. n > 0 => Beginning(text, n)[n] = text[n]
  BY <1>1, <1>2
<1>4. Bytes(Append(Beginning(text, n), text[n + 1])) = Bytes(Beginning(text, n)) + Utf8Length(text[n + 1])
  BY <1>2, <1>3, BytesOfAppend
<1> QED
  BY <1>4, NextBeginning

(* What a surrogate pair adds. *)
LEMMA NextPairBytes ==
  ASSUME NEW text \in Seq(Chars), NEW n \in 0..(Len(text) - 2),
         text[n + 1] = "h", text[n + 2] = "l"
  PROVE  Bytes(Beginning(text, n + 2)) = Bytes(Beginning(text, n)) + 4
<1>1. /\ Len(text) \in Nat /\ n \in 0..(Len(text) - 1) /\ n \in 0..Len(text)
      /\ n + 1 \in 0..(Len(text) - 1) /\ (n + 1) + 1 = n + 2
  BY LenProperties
<1>2. Beginning(text, n) \in Seq(Chars)
  BY <1>1, BeginningElements
<1>3. Beginning(text, n + 1) = Append(Beginning(text, n), "h")
  BY <1>1, NextBeginning
<1>4. Beginning(text, (n + 1) + 1) = Append(Beginning(text, n + 1), text[(n + 1) + 1])
  BY <1>1, NextBeginning
<1>5. Beginning(text, n + 2) = Append(Append(Beginning(text, n), "h"), "l")
  BY <1>1, <1>3, <1>4
<1> QED
  BY <1>2, <1>5, BytesOfPair

LEMMA BytesNeverShrink ==
  ASSUME NEW text \in Seq(Chars), NEW n \in 0..(Len(text) - 1)
  PROVE  Bytes(Beginning(text, n)) <= Bytes(Beginning(text, n + 1))
<1>1. /\ Len(text) \in Nat /\ n \in 0..Len(text) /\ n + 1 \in 0..Len(text)
  BY LenProperties
<1>2. Beginning(text, n) \in Seq(Chars) /\ Beginning(text, n + 1) \in Seq(Chars)
  BY <1>1, BeginningElements
<1>3. Bytes(Beginning(text, n)) \in Nat /\ Bytes(Beginning(text, n + 1)) \in Nat
  BY <1>2, BytesIsNumber
<1>4. CASE ~ (n > 0 /\ text[n] = "h" /\ text[n + 1] = "l")
  <2>1. Bytes(Beginning(text, n + 1)) = Bytes(Beginning(text, n)) + Utf8Length(text[n + 1])
    BY <1>4, NextBytes
  <2> QED
    BY <1>3, <2>1 DEF Utf8Length
<1>5. CASE n > 0 /\ text[n] = "h" /\ text[n + 1] = "l"
  <2> DEFINE m == n - 1
  <2>1. m \in 0..(Len(text) - 2) /\ m \in 0..(Len(text) - 1) /\ m + 1 = n /\ m + 2 = n + 1
        /\ m \in 0..Len(text)
    BY <1>1, <1>5
  <2> HIDE DEF m
  <2>2. Bytes(Beginning(text, n + 1)) = Bytes(Beginning(text, m)) + 4
    BY <1>5, <2>1, NextPairBytes
  <2>3. Bytes(Beginning(text, n)) = Bytes(Beginning(text, m)) + 3
    <3>1. ~ (m > 0 /\ text[m] = "h" /\ text[m + 1] = "l")
      BY <1>5, <2>1
    <3>2. Bytes(Beginning(text, m + 1)) = Bytes(Beginning(text, m)) + Utf8Length(text[m + 1])
      BY <2>1, <3>1, NextBytes
    <3>3. Utf8Length(text[m + 1]) = 3
      BY <1>5, <2>1 DEF Utf8Length
    <3> QED
      BY <2>1, <3>2, <3>3
  <2>4. Bytes(Beginning(text, m)) \in Nat
    BY <2>1, BeginningElements, BytesIsNumber
  <2> QED
    BY <2>2, <2>3, <2>4
<1> QED
  BY <1>4, <1>5

(* A longer beginning has no fewer bytes. *)
LEMMA BytesGrow ==
  ASSUME NEW text \in Seq(Chars), NEW n \in 0..Len(text), NEW m \in 0..n
  PROVE  Bytes(Beginning(text, m)) <= Bytes(Beginning(text, n))
<1> DEFINE B(k) == Bytes(Beginning(text, k))
           S == {d \in Nat : m + d <= Len(text) => B(m) <= B(m + d)}
<1>1. Len(text) \in Nat /\ \A k \in 0..Len(text) : B(k) \in Nat
  BY LenProperties, BeginningElements, BytesIsNumber
<1>2. m \in Nat /\ m <= Len(text)
  BY <1>1
<1> HIDE DEF B
<1>3. 0 \in S
  BY <1>1, <1>2
<1>4. ASSUME NEW d \in S
      PROVE  d + 1 \in S
  <2> SUFFICES ASSUME m + (d + 1) <= Len(text) PROVE B(m) <= B(m + (d + 1))
    BY <1>2
  <2>1. B(m) <= B(m + d) /\ m + d \in 0..(Len(text) - 1)
    BY <1>1, <1>2
  <2>2. B(m + d) <= B((m + d) + 1)
    BY <2>1, BytesNeverShrink DEF B
  <2>3. (m + d) + 1 = m + (d + 1) /\ m + d \in 0..Len(text) /\ m + (d + 1) \in 0..Len(text) /\ m \in 0..Len(text)
    BY <1>1, <1>2, <2>1
  <2>4. B(m) \in Nat /\ B(m + d) \in Nat /\ B(m + (d + 1)) \in Nat
    BY <1>1, <2>3
  <2> QED
    BY <2>1, <2>2, <2>3, <2>4
<1>5. S = Nat
  <2>1. S \in SUBSET Nat
    OBVIOUS
  <2> HIDE DEF S
  <2> QED
    BY <1>3, <1>4, <2>1, ReachesAll
<1>6. n - m \in S /\ m + (n - m) = n /\ n <= Len(text)
  <2>1. n - m \in Nat /\ m + (n - m) = n /\ n <= Len(text)
    BY <1>1
  <2> HIDE DEF S
  <2> QED
    BY <1>5, <2>1
<1> QED
  BY <1>6 DEF B

-----------------------------------------------------------------------------
(* What a capture keeps of what was written                                *)

(* The character after the first k of w, or the pair, is too much for the  *)
(* limit of the agent.                                                     *)
Overflows(w, k) == \E m \in {k + 1, k + 2} :
  /\ m <= Len(w)
  /\ Bytes(Beginning(w, m)) > AgentLimit
  /\ m = k + 2 => w[k + 1] = "h" /\ w[k + 2] = "l"

(* c keeps the beginning of w, and all that fits. *)
Follows(c, w) ==
  /\ Len(c.text) <= Len(w)
  /\ c.text = Beginning(w, Len(c.text))
  /\ c.bytes = Bytes(c.text)
  /\ c.truncated => Overflows(w, Len(c.text))

(* The last character that c keeps is not the first half of a pair. *)
Settled(c, w) ==
  Len(c.text) > 0 /\ w[Len(c.text)] = "h" => Len(c.text) < Len(w) /\ w[Len(c.text) + 1] # "l"

LEMMA KeepFollows ==
  ASSUME NEW c, Bounded(c), ~c.truncated, NEW w \in Seq(Chars), Follows(c, w),
         NEW chars \in Seq(Chars), NEW size \in Nat, NEW m \in Nat,
         m = Len(c.text) + 1 \/ m = Len(c.text) + 2, m <= Len(w),
         c.text \o chars = Beginning(w, m),
         Bytes(Beginning(w, m)) = Bytes(c.text) + size,
         m = Len(c.text) + 2 => w[Len(c.text) + 1] = "h" /\ w[Len(c.text) + 2] = "l"
  PROVE  /\ Follows(Keep(c, chars, size), w)
         /\ Keep(c, chars, size).truncated => Keep(c, chars, size).text = c.text
         /\ ~Keep(c, chars, size).truncated => Len(Keep(c, chars, size).text) = m
<1>1. c \in Captures /\ Len(c.text) \in Nat /\ Len(w) \in Nat /\ m \in 0..Len(w)
  BY LenProperties DEF Bounded, Captures
<1>2. CASE c.bytes + size > AgentLimit
  <2> DEFINE d == [c EXCEPT !.truncated = TRUE]
  <2>1. Keep(c, chars, size) = d
    BY <1>2 DEF Keep
  <2>2. d.text = c.text /\ d.bytes = c.bytes /\ d.truncated
    BY <1>1 DEF Captures
  <2>3. Overflows(w, Len(c.text))
    <3>1. Bytes(Beginning(w, m)) > AgentLimit
      BY <1>2 DEF Follows
    <3> QED
      BY <3>1 DEF Overflows
  <2> HIDE DEF d
  <2> QED
    BY <2>1, <2>2, <2>3 DEF Follows
<1>3. CASE ~ (c.bytes + size > AgentLimit)
  <2> DEFINE d == [c EXCEPT !.text = @ \o chars, !.bytes = @ + size]
  <2>1. Keep(c, chars, size) = d
    BY <1>3 DEF Keep
  <2>2. d.text = Beginning(w, m) /\ d.bytes = Bytes(Beginning(w, m)) /\ ~d.truncated
    BY <1>1 DEF Captures, Follows
  <2>3. Len(Beginning(w, m)) = m
    BY <1>1, BeginningElements
  <2> HIDE DEF d
  <2> QED
    BY <1>1, <2>1, <2>2, <2>3 DEF Follows
<1> QED
  BY <1>2, <1>3

(* One more character is kept, or is too much. *)
LEMMA KeepChar ==
  ASSUME NEW c, Bounded(c), ~c.truncated, NEW w \in Seq(Chars), Follows(c, w),
         Len(c.text) < Len(w), NEW char, char = w[Len(c.text) + 1],
         ~ (Len(c.text) > 0 /\ w[Len(c.text)] = "h" /\ char = "l")
  PROVE  LET d == Keep(c, <<char>>, Utf8Length(char))
         IN  /\ Follows(d, w)
             /\ d.truncated => d.text = c.text
             /\ ~d.truncated => Len(d.text) = Len(c.text) + 1
<1> DEFINE k == Len(c.text)
<1>1. k \in Nat /\ Len(w) \in Nat /\ k \in 0..(Len(w) - 1) /\ k + 1 \in 0..Len(w) /\ k + 1 \in 1..Len(w)
  BY LenProperties DEF Bounded, Captures
<1>2. char \in Chars /\ <<char>> \in Seq(Chars) /\ Utf8Length(char) \in Nat
  BY <1>1, ElementOfSeq, CharSeqs DEF Utf8Length
<1>3. c.text \o <<char>> = Beginning(w, k + 1)
  <2>1. Beginning(w, k + 1) = Append(Beginning(w, k), char)
    BY <1>1, NextBeginning
  <2>2. c.text \in Seq(Chars) /\ c.text = Beginning(w, k)
    BY DEF Bounded, Captures, Follows
  <2> HIDE DEF k
  <2> QED
    BY <1>2, <2>1, <2>2, AppendIsConcat
<1>4. Bytes(Beginning(w, k + 1)) = Bytes(c.text) + Utf8Length(char)
  <2>1. Bytes(Beginning(w, k + 1)) = Bytes(Beginning(w, k)) + Utf8Length(w[k + 1])
    BY <1>1, NextBytes
  <2> QED
    BY <2>1 DEF Follows
<1>5. k + 1 \in Nat /\ k + 1 <= Len(w) /\ k + 1 # k + 2
  BY <1>1
<1> QED
  BY <1>2, <1>3, <1>4, <1>5, KeepFollows

(* So is a surrogate pair. *)
LEMMA KeepPair ==
  ASSUME NEW c, Bounded(c), ~c.truncated, NEW w \in Seq(Chars), Follows(c, w),
         Len(c.text) + 2 <= Len(w), w[Len(c.text) + 1] = "h", w[Len(c.text) + 2] = "l"
  PROVE  LET d == Keep(c, <<"h", "l">>, 4)
         IN  /\ Follows(d, w)
             /\ d.truncated => d.text = c.text
             /\ ~d.truncated => Len(d.text) = Len(c.text) + 2
<1> DEFINE k == Len(c.text)
<1>1. /\ k \in Nat /\ Len(w) \in Nat /\ k \in 0..(Len(w) - 2) /\ k \in 0..(Len(w) - 1)
      /\ k + 1 \in 0..(Len(w) - 1) /\ (k + 1) + 1 = k + 2 /\ k + 2 \in Nat
  BY LenProperties DEF Bounded, Captures
<1>2. <<"h", "l">> \in Seq(Chars) /\ <<"h", "l">> = <<"h">> \o <<"l">> /\ "h" \in Chars /\ "l" \in Chars
      /\ <<"h">> \in Seq(Chars) /\ <<"l">> \in Seq(Chars) /\ 4 \in Nat
  BY CharSeqs DEF Chars
<1>3. c.text \in Seq(Chars) /\ c.text = Beginning(w, k)
  BY DEF Bounded, Captures, Follows
<1> HIDE DEF k
<1>4. c.text \o <<"h", "l">> = Beginning(w, k + 2)
  <2>1. Beginning(w, k + 1) = Append(c.text, "h")
    BY <1>1, <1>3, NextBeginning DEF k
  <2>2. Beginning(w, (k + 1) + 1) = Append(Beginning(w, k + 1), w[(k + 1) + 1])
    BY <1>1, NextBeginning
  <2>3. w[(k + 1) + 1] = "l"
    BY <1>1 DEF k
  <2>4. Beginning(w, k + 2) = Append(Append(c.text, "h"), "l")
    BY <1>1, <2>1, <2>2, <2>3
  <2>5. Append(c.text, "h") = c.text \o <<"h">> /\ Append(c.text, "h") \in Seq(Chars)
    BY <1>2, <1>3, AppendIsConcat, AppendProperties
  <2>6. Append(Append(c.text, "h"), "l") = Append(c.text, "h") \o <<"l">>
    BY <1>2, <2>5, AppendIsConcat
  <2>7. (c.text \o <<"h">>) \o <<"l">> = c.text \o (<<"h">> \o <<"l">>)
    BY <1>2, <1>3, RegroupChar
  <2> QED
    BY <1>2, <2>4, <2>5, <2>6, <2>7
<1>5. Bytes(Beginning(w, k + 2)) = Bytes(c.text) + 4
  BY <1>1, <1>3, NextPairBytes DEF k
<1>6. PICK m \in Nat : m = k + 2
  BY <1>1
<1>7. /\ m # k + 1 /\ m <= Len(w) /\ c.text \o <<"h", "l">> = Beginning(w, m)
      /\ Bytes(Beginning(w, m)) = Bytes(c.text) + 4
      /\ w[k + 1] = "h" /\ w[k + 2] = "l"
  BY <1>1, <1>4, <1>5, <1>6 DEF k
<1>8. PICK chars \in Seq(Chars), size \in Nat : chars = <<"h", "l">> /\ size = 4
  BY <1>2
<1>9. /\ Follows(Keep(c, chars, size), w)
      /\ Keep(c, chars, size).truncated => Keep(c, chars, size).text = c.text
      /\ ~Keep(c, chars, size).truncated => Len(Keep(c, chars, size).text) = m
  <2>1. /\ m = Len(c.text) + 1 \/ m = Len(c.text) + 2
        /\ c.text \o chars = Beginning(w, m) /\ m <= Len(w)
        /\ Bytes(Beginning(w, m)) = Bytes(c.text) + size
        /\ w[Len(c.text) + 1] = "h" /\ w[Len(c.text) + 2] = "l"
    BY <1>6, <1>7, <1>8 DEF k
  <2> QED
    BY <1>6, <2>1, KeepFollows
<1> QED
  BY <1>6, <1>8, <1>9 DEF k

(* Where the reader is in what was written, if nothing was cut. *)
LEMMA WhereItReads ==
  ASSUME NEW c, Bounded(c), NEW p \in Seq(Chars), NEW w, w = ReadSoFar(c) \o p
  PROVE  LET k == Len(c.text)
         IN  /\ w \in Seq(Chars)
             /\ IF c.high THEN Len(w) = k + 1 + Len(p) /\ w[k + 1] = "h"
                               /\ (p # <<>> => w[k + 2] = Head(p))
                ELSE Len(w) = k + Len(p) /\ (p # <<>> => w[k + 1] = Head(p))
<1> DEFINE k == Len(c.text)
<1>1. c.text \in Seq(Chars) /\ k \in Nat /\ Len(p) \in Nat
      /\ (p # <<>> => Len(p) > 0 /\ Head(p) = p[1])
  BY LenProperties DEF Bounded, Captures
<1>2. CASE c.high
  <2> DEFINE r == c.text \o <<"h">>
  <2>1. <<"h">> \in Seq(Chars) /\ Len(<<"h">>) = 1 /\ <<"h">>[1] = "h"
    BY CharSeqs DEF Chars
  <2>2. r \in Seq(Chars) /\ Len(r) = k + 1
        /\ \A i \in 1..(k + 1) : r[i] = IF i <= k THEN c.text[i] ELSE <<"h">>[i - k]
    BY <1>1, <2>1, ConcatProperties
  <2>3. r[k + 1] = "h"
    <3>1. k + 1 \in 1..(k + 1) /\ ~ (k + 1 <= k) /\ (k + 1) - k = 1
      BY <1>1
    <3> HIDE DEF r
    <3> QED
      BY <2>1, <2>2, <3>1
  <2>4. w = r \o p
    BY <1>2 DEF ReadSoFar, Waiting
  <2> HIDE DEF r
  <2>5. w \in Seq(Chars) /\ Len(w) = (k + 1) + Len(p)
        /\ \A i \in 1..((k + 1) + Len(p)) : w[i] = IF i <= k + 1 THEN r[i] ELSE p[i - (k + 1)]
    <3>1. /\ r \o p \in Seq(Chars) /\ Len(r \o p) = Len(r) + Len(p)
          /\ \A i \in 1..(Len(r) + Len(p)) : (r \o p)[i] = IF i <= Len(r) THEN r[i] ELSE p[i - Len(r)]
      BY <2>2, ConcatProperties
    <3> HIDE DEF k
    <3> QED
      BY <2>2, <2>4, <3>1
  <2>6. w[k + 1] = "h"
    <3>1. k + 1 \in 1..((k + 1) + Len(p))
      BY <1>1
    <3> QED
      BY <1>1, <2>3, <2>5, <3>1
  <2>7. p # <<>> => w[k + 2] = Head(p)
    <3>1. p # <<>> => k + 2 \in 1..((k + 1) + Len(p)) /\ ~ (k + 2 <= k + 1) /\ (k + 2) - (k + 1) = 1
      BY <1>1
    <3> HIDE DEF k
    <3> QED
      BY <1>1, <2>5, <3>1
  <2> QED
    BY <1>1, <1>2, <2>5, <2>6, <2>7
<1>3. CASE ~c.high
  <2>1. c.text \o <<>> = c.text
    BY <1>1, ConcatEmptySeq
  <2>2. w = c.text \o p
    BY <1>3, <2>1 DEF ReadSoFar, Waiting
  <2>3. w \in Seq(Chars) /\ Len(w) = k + Len(p)
        /\ \A i \in 1..(k + Len(p)) : w[i] = IF i <= k THEN c.text[i] ELSE p[i - k]
    BY <1>1, <2>2, ConcatProperties
  <2>4. p # <<>> => w[k + 1] = Head(p)
    <3>1. p # <<>> => k + 1 \in 1..(k + Len(p)) /\ ~ (k + 1 <= k) /\ (k + 1) - k = 1
      BY <1>1
    <3> HIDE DEF k
    <3> QED
      BY <1>1, <2>3, <3>1
  <2> QED
    BY <1>3, <2>3, <2>4
<1> QED
  BY <1>2, <1>3

(* More is written: what was kept stays the beginning of it.               *)
LEMMA FollowsMore ==
  ASSUME NEW c, Bounded(c), NEW w \in Seq(Chars), NEW x \in Chars, Follows(c, w)
  PROVE  /\ Follows(c, Append(w, x))
         /\ Settled(c, w) => Settled(c, Append(w, x))
<1> DEFINE k == Len(c.text)
           v == Append(w, x)
<1>1. k \in Nat /\ Len(w) \in Nat /\ k <= Len(w) /\ k \in 0..Len(w)
  BY LenProperties DEF Bounded, Captures, Follows
<1>2. /\ Len(v) = Len(w) + 1
      /\ \A i \in 1..Len(w) : v[i] = w[i]
      /\ \A m \in 0..Len(w) : Beginning(v, m) = Beginning(w, m)
  BY <1>1, BeginningOfAppend
<1> HIDE DEF v
<1>3. ASSUME Overflows(w, k)
      PROVE  Overflows(v, k)
  <2>1. PICK m \in {k + 1, k + 2} : /\ m <= Len(w) /\ Bytes(Beginning(w, m)) > AgentLimit
                                    /\ m = k + 2 => w[k + 1] = "h" /\ w[k + 2] = "l"
    BY <1>3 DEF Overflows
  <2>2. m \in 0..Len(w) /\ m <= Len(v)
    BY <1>1, <1>2, <2>1
  <2>3. m = k + 2 => k + 1 \in 1..Len(w) /\ k + 2 \in 1..Len(w)
    BY <1>1, <2>1
  <2>4. m = k + 2 => v[k + 1] = "h" /\ v[k + 2] = "l"
    BY <1>2, <2>1, <2>3
  <2>5. Bytes(Beginning(v, m)) > AgentLimit
    BY <1>2, <2>1, <2>2
  <2> QED
    BY <2>1, <2>2, <2>4, <2>5 DEF Overflows
<1>4. Follows(c, v)
  BY <1>1, <1>2, <1>3 DEF Follows
<1>5. Settled(c, w) => Settled(c, v)
  <2> SUFFICES ASSUME Settled(c, w), k > 0, v[k] = "h" PROVE k < Len(v) /\ v[k + 1] # "l"
    BY DEF Settled
  <2>1. w[k] = "h"
    BY <1>1, <1>2
  <2>2. k < Len(w) /\ w[k + 1] # "l"
    BY <2>1 DEF Settled
  <2>3. k + 1 \in 1..Len(w)
    BY <1>1, <2>2
  <2> QED
    BY <1>1, <1>2, <2>2, <2>3
<1> QED
  BY <1>4, <1>5 DEF v

(* The end of a stream, or of its reading: a half that waits is kept alone. *)
LEMMA FinishFollows ==
  ASSUME NEW c, Bounded(c), NEW w \in Seq(Chars), Follows(c, w), Settled(c, w),
         c.high /\ ~c.truncated => Len(c.text) < Len(w) /\ w[Len(c.text) + 1] = "h"
  PROVE  /\ Follows(Finish(c), w)
         /\ Finish(c).truncated => Finish(c).text = c.text
         /\ ~Finish(c).truncated =>
              Len(Finish(c).text) = IF c.high THEN Len(c.text) + 1 ELSE Len(c.text)
<1> DEFINE u == [c EXCEPT !.high = FALSE]
<1>1. /\ Bounded(u) /\ u.text = c.text /\ u.bytes = c.bytes /\ u.truncated = c.truncated
      /\ c.truncated \in BOOLEAN /\ c.high \in BOOLEAN
  BY DEF Bounded, Captures
<1> HIDE DEF u
<1>2. Follows(u, w)
  BY <1>1 DEF Follows
<1>3. CASE c.high /\ ~c.truncated
  <2>1. Finish(c) = Keep(u, <<"h">>, 3)
    BY <1>3 DEF Finish, u
  <2>2. Utf8Length("h") = 3 /\ w[Len(u.text) + 1] = "h" /\ Len(u.text) < Len(w)
    BY <1>1, <1>3 DEF Utf8Length
  <2>3. LET d == Keep(u, <<"h">>, Utf8Length("h"))
        IN  /\ Follows(d, w)
            /\ d.truncated => d.text = u.text
            /\ ~d.truncated => Len(d.text) = Len(u.text) + 1
    <3>1. PICK char : char = "h"
      OBVIOUS
    <3>2. /\ ~u.truncated /\ char = w[Len(u.text) + 1]
          /\ ~ (Len(u.text) > 0 /\ w[Len(u.text)] = "h" /\ char = "l")
      BY <1>1, <1>3, <2>2, <3>1
    <3>3. LET d == Keep(u, <<char>>, Utf8Length(char))
          IN  /\ Follows(d, w)
              /\ d.truncated => d.text = u.text
              /\ ~d.truncated => Len(d.text) = Len(u.text) + 1
      BY <1>1, <1>2, <2>2, <3>2, KeepChar
    <3> QED
      BY <3>1, <3>3
  <2> QED
    BY <1>1, <1>3, <2>1, <2>2, <2>3
<1>4. CASE ~ (c.high /\ ~c.truncated)
  <2>1. Finish(c) = u
    BY <1>4 DEF Finish, u
  <2> QED
    BY <1>1, <1>2, <1>4, <2>1
<1> QED
  BY <1>3, <1>4

(* One character is read. *)
LEMMA AppendFollows ==
  ASSUME NEW c, Bounded(c), NEW w \in Seq(Chars), Follows(c, w), Settled(c, w),
         NEW p \in Seq(Chars), p # <<>>, ~c.truncated => w = ReadSoFar(c) \o p
  PROVE  Follows(AppendChar(c, Head(p)), w) /\ Settled(AppendChar(c, Head(p)), w)
<1> DEFINE k == Len(c.text)
           char == Head(p)
           d == AppendChar(c, char)
<1> SUFFICES Follows(d, w) /\ Settled(d, w)
  OBVIOUS
<1>1. k \in Nat /\ Len(w) \in Nat /\ Len(p) \in Nat /\ Len(p) > 0 /\ char \in Chars
  BY LenProperties, HeadTailProperties, EmptySeq DEF Bounded, Captures
<1>2. ~c.truncated =>
        IF c.high THEN k + 2 <= Len(w) /\ w[k + 1] = "h" /\ w[k + 2] = char
        ELSE k + 1 <= Len(w) /\ w[k + 1] = char
  <2> SUFFICES ASSUME ~c.truncated
               PROVE  IF c.high THEN k + 2 <= Len(w) /\ w[k + 1] = "h" /\ w[k + 2] = char
                      ELSE k + 1 <= Len(w) /\ w[k + 1] = char
    OBVIOUS
  <2>1. IF c.high THEN Len(w) = k + 1 + Len(p) /\ w[k + 1] = "h" /\ (p # <<>> => w[k + 2] = Head(p))
        ELSE Len(w) = k + Len(p) /\ (p # <<>> => w[k + 1] = Head(p))
    BY WhereItReads
  <2> QED
    BY <1>1, <2>1
<1>3. \A e : e.text = c.text => Settled(e, w)
  BY DEF Settled
<1> HIDE DEF k, char, d
<1>4. CASE c.truncated
  BY <1>3, <1>4 DEF AppendChar, d
<1>5. CASE ~c.truncated /\ c.high /\ char = "l"
  <2> DEFINE u == [c EXCEPT !.high = FALSE]
             e == Keep(u, <<"h", "l">>, 4)
  <2>1. d = e
    BY <1>5 DEF AppendChar, d
  <2>2. Bounded(u) /\ u.text = c.text /\ u.bytes = c.bytes /\ u.truncated = c.truncated
    BY DEF Bounded, Captures
  <2> HIDE DEF u
  <2>3. Follows(u, w)
    BY <2>2 DEF Follows
  <2>4. /\ Follows(e, w)
        /\ e.truncated => e.text = u.text
        /\ ~e.truncated => Len(e.text) = Len(u.text) + 2
    BY <1>2, <1>5, <2>2, <2>3, KeepPair DEF k
  <2> HIDE DEF e
  <2>5. ~e.truncated => Settled(e, w)
    BY <1>2, <1>5, <2>2, <2>4 DEF Settled, k
  <2> QED
    BY <1>3, <2>1, <2>2, <2>4, <2>5
<1>6. CASE ~c.truncated /\ ~ (c.high /\ char = "l")
  <2> DEFINE f == Finish(c)
             e == KeepOrWait(f, char)
  <2>1. /\ Follows(f, w)
        /\ f.truncated => f.text = c.text
        /\ ~f.truncated => Len(f.text) = IF c.high THEN k + 1 ELSE k
    BY <1>1, <1>2, FinishFollows DEF k
  <2>2. Bounded(f) /\ ~f.high
    BY FinishFields
  <2>3. d = IF f.truncated THEN f ELSE e
    BY <1>6 DEF AppendChar, d
  <2> HIDE DEF f
  <2>4. CASE f.truncated
    BY <1>3, <2>1, <2>3, <2>4
  <2>5. CASE ~f.truncated
    <3>1. /\ Len(f.text) + 1 <= Len(w) /\ w[Len(f.text) + 1] = char
          /\ Len(f.text) \in Nat
      BY <1>1, <1>2, <1>6, <2>1, <2>5
    <3>2. Settled(f, w)
      <4>1. CASE c.high
        BY <1>1, <1>6, <2>1, <2>5, <3>1, <4>1 DEF Settled
      <4>2. CASE ~c.high
        BY <2>1, <2>5, <4>2 DEF Settled, k
      <4> QED
        BY <4>1, <4>2
    <3>3. CASE char = "h"
      <4>1. e = [f EXCEPT !.high = TRUE]
        BY <3>3 DEF KeepOrWait
      <4>2. e.text = f.text /\ e.bytes = f.bytes /\ e.truncated = f.truncated
        BY <2>2, <4>1 DEF Bounded, Captures
      <4> HIDE DEF e
      <4> QED
        BY <2>1, <2>3, <2>5, <3>2, <4>2 DEF Follows, Settled
    <3>4. CASE char # "h"
      <4>1. e = Keep(f, <<char>>, Utf8Length(char))
        BY <3>4 DEF KeepOrWait
      <4>2. ~ (Len(f.text) > 0 /\ w[Len(f.text)] = "h" /\ char = "l") /\ Len(f.text) < Len(w)
        BY <1>1, <3>1, <3>2 DEF Settled
      <4>3. /\ Follows(e, w)
            /\ e.truncated => e.text = f.text
            /\ ~e.truncated => Len(e.text) = Len(f.text) + 1
        BY <2>1, <2>2, <2>5, <3>1, <4>1, <4>2, KeepChar
      <4> HIDE DEF e
      <4>4. Settled(e, w)
        BY <3>1, <3>2, <3>4, <4>3 DEF Settled
      <4> QED
        BY <2>3, <2>5, <4>3, <4>4
    <3> QED
      BY <3>3, <3>4
  <2> QED
    BY <2>4, <2>5
<1> QED
  BY <1>4, <1>5, <1>6

(* A capture keeps the beginning of what was written to its stream; once   *)
(* the stream has ended that is no half of a pair.                         *)
CaptureInv == \A s \in Streams :
  /\ Follows(capture[s], wrote[s])
  /\ reader[s] = "reading" => Settled(capture[s], wrote[s])
  /\ reader[s] = "ended" /\ Len(capture[s].text) > 0 =>
       ~PairAt(wrote[s], Len(capture[s].text))

LEMMA FollowsAfter ==
  ASSUME NEW c, NEW w, UNCHANGED legacy,
         NEW s, capture'[s] = c, wrote'[s] = w, Follows(c, w)
  PROVE  Follows(capture[s], wrote[s])'
BY DEF Follows, Overflows, AgentLimit

LEMMA CaptureInvHolds == Spec => []CaptureInv
<1>1. Init => CaptureInv
  <2> SUFFICES ASSUME Init, NEW s \in Streams
               PROVE  Follows(EmptyCapture, <<>>) /\ Settled(EmptyCapture, <<>>)
    BY DEF Init, CaptureInv
  <2>1. <<>> \in Seq(Chars) /\ Len(<<>>) = 0 /\ 0 \in 0..Len(<<>>)
    OBVIOUS
  <2>2. <<>> = Beginning(<<>>, 0)
    BY <2>1, BeginningIs
  <2> QED
    BY <2>1, <2>2, BytesOfNothing DEF EmptyCapture, Follows, Settled
<1>2. ASSUME CaptureInv, NothingLost, EndIsFinal, ReadTypeOK, JobTypeOK, [Next]_vars
      PROVE  CaptureInv'
  <2>1. ASSUME UNCHANGED <<legacy, capture, reader, wrote>>
        PROVE  CaptureInv'
    BY <1>2, <2>1 DEF CaptureInv, Follows, Overflows, AgentLimit, Settled, PairAt
  <2>2. CASE Write
    <3> DEFINE s == Head(todo).stream
               c == Head(todo).char
    <3>1. s \in Streams /\ c \in Chars
      <4>1. Head(todo) \in Writes
        BY <1>2, <2>2, HeadTailProperties DEF Write, JobTypeOK
      <4>2. OutChars \subseteq Chars /\ ErrChars \subseteq Chars
        BY CharsAssumption DEF Chars
      <4> QED
        BY <4>1, <4>2 DEF Writes, Streams
    <3>2. /\ wrote' = [wrote EXCEPT ![s] = Append(@, c)]
          /\ UNCHANGED <<legacy, capture, reader>>
      BY <2>2 DEF Write, agent
    <3>3. \A x \in Streams : reader[x] # "ended"
      BY <1>2, <2>2 DEF Write, EndIsFinal
    <3> HIDE DEF s, c
    <3>4. ASSUME NEW x \in Streams
          PROVE  /\ Follows(capture[x], wrote'[x])
                 /\ Settled(capture[x], wrote[x]) => Settled(capture[x], wrote'[x])
      <4>1. Bounded(capture[x]) /\ wrote[x] \in Seq(Chars) /\ Follows(capture[x], wrote[x])
        BY <1>2 DEF Bounded, ReadTypeOK, JobTypeOK, CaptureInv
      <4>2. wrote'[x] = IF x = s THEN Append(wrote[x], c) ELSE wrote[x]
        BY <1>2, <3>1, <3>2 DEF JobTypeOK
      <4>3. CASE x = s
        BY <3>1, <4>1, <4>2, <4>3, FollowsMore
      <4>4. CASE x # s
        BY <4>1, <4>2, <4>4
      <4> QED
        BY <4>3, <4>4
    <3>5. ASSUME NEW x \in Streams
          PROVE  /\ Follows(capture[x], wrote[x])'
                 /\ reader'[x] = "reading" => Settled(capture[x], wrote[x])'
                 /\ reader'[x] # "ended"
      <4>1. capture'[x] = capture[x] /\ reader'[x] = reader[x]
        BY <3>2
      <4>2. Follows(capture[x], wrote[x])'
        BY <3>2, <3>4, <4>1, FollowsAfter
      <4>3. reader[x] = "reading" => Settled(capture[x], wrote'[x])
        BY <1>2, <3>4 DEF CaptureInv
      <4> QED
        BY <3>3, <4>1, <4>2, <4>3 DEF Settled
    <3> QED
      BY <3>5 DEF CaptureInv
  <2>3. ASSUME NEW s \in Streams, UNCHANGED <<legacy, wrote>>,
               \A x \in Streams \ {s} : capture'[x] = capture[x] /\ reader'[x] = reader[x],
               Follows(capture'[s], wrote[s]),
               reader'[s] = "reading" => Settled(capture'[s], wrote[s]),
               reader'[s] = "ended" /\ Len(capture'[s].text) > 0 =>
                 ~PairAt(wrote[s], Len(capture'[s].text))
        PROVE  CaptureInv'
    <3> SUFFICES ASSUME NEW x \in Streams
                 PROVE  /\ Follows(capture[x], wrote[x])'
                        /\ reader'[x] = "reading" => Settled(capture[x], wrote[x])'
                        /\ reader'[x] = "ended" /\ Len(capture'[x].text) > 0 =>
                             ~PairAt(wrote[x], Len(capture[x].text))'
      BY DEF CaptureInv
    <3>1. /\ Follows(capture'[x], wrote[x])
          /\ reader'[x] = "reading" => Settled(capture'[x], wrote[x])
          /\ reader'[x] = "ended" /\ Len(capture'[x].text) > 0 =>
               ~PairAt(wrote[x], Len(capture'[x].text))
      <4>1. CASE x = s
        BY <2>3, <4>1
      <4>2. CASE x # s
        BY <1>2, <2>3, <4>2 DEF CaptureInv
      <4> QED
        BY <4>1, <4>2
    <3>2. wrote'[x] = wrote[x]
      BY <2>3
    <3>3. Follows(capture[x], wrote[x])'
      BY <2>3, <3>1, <3>2, FollowsAfter
    <3> QED
      BY <3>1, <3>2, <3>3 DEF Settled, PairAt
  <2>4. ASSUME NEW s \in Streams, Read(s)
        PROVE  CaptureInv'
    <3> DEFINE d == AppendChar(capture[s], Head(pipe[s]))
    <3>1. /\ Bounded(capture[s]) /\ wrote[s] \in Seq(Chars) /\ pipe[s] \in Seq(Chars)
          /\ Follows(capture[s], wrote[s])
      BY <1>2 DEF Bounded, ReadTypeOK, JobTypeOK, CaptureInv
    <3>2. reader[s] = "reading" /\ pipe[s] # <<>> /\ Settled(capture[s], wrote[s])
      BY <1>2, <2>4 DEF Read, Reads, CaptureInv
    <3>3. ~capture[s].truncated => wrote[s] = ReadSoFar(capture[s]) \o pipe[s]
      BY <1>2 DEF NothingLost
    <3>4. Follows(d, wrote[s]) /\ Settled(d, wrote[s])
      BY <3>1, <3>2, <3>3, AppendFollows
    <3>5. /\ UNCHANGED <<legacy, wrote, reader>> /\ capture'[s] = d
          /\ \A x \in Streams \ {s} : capture'[x] = capture[x]
      BY <1>2, <2>4 DEF Read, agent, ReadTypeOK
    <3> HIDE DEF d
    <3> QED
      BY <2>3, <3>2, <3>4, <3>5
  <2>5. ASSUME NEW s \in Streams, EndOfStream(s) \/ CancelRead(s)
        PROVE  CaptureInv'
    <3> DEFINE c == capture[s]
               w == wrote[s]
               d == Finish(c)
    <3>1. /\ Bounded(c) /\ w \in Seq(Chars) /\ pipe[s] \in Seq(Chars) /\ Follows(c, w)
      BY <1>2 DEF Bounded, ReadTypeOK, JobTypeOK, CaptureInv
    <3>2. reader[s] = "reading" /\ Settled(c, w)
      BY <1>2, <2>5 DEF EndOfStream, CancelRead, Reads, Cancellable, CaptureInv
    <3>3. ~c.truncated => w = ReadSoFar(c) \o pipe[s]
      BY <1>2 DEF NothingLost
    <3>4. /\ UNCHANGED <<legacy, wrote>> /\ capture'[s] = d
          /\ reader'[s] \in {"ended", "cancelled"}
          /\ reader'[s] = "ended" => pipe[s] = <<>>
          /\ \A x \in Streams \ {s} : capture'[x] = capture[x] /\ reader'[x] = reader[x]
      BY <1>2, <2>5 DEF EndOfStream, CancelRead, Ends, agent, job, ReadTypeOK
    <3> HIDE DEF c, w, d
    <3>5. Len(c.text) \in Nat /\ Len(pipe[s]) \in Nat /\ Len(w) \in Nat
      BY <3>1, LenProperties DEF Bounded, Captures
    <3>6. ~c.truncated => IF c.high THEN Len(w) = Len(c.text) + 1 + Len(pipe[s])
                                         /\ w[Len(c.text) + 1] = "h"
                          ELSE Len(w) = Len(c.text) + Len(pipe[s])
      BY <3>1, <3>3, WhereItReads
    <3>7. c.high /\ ~c.truncated => Len(c.text) < Len(w) /\ w[Len(c.text) + 1] = "h"
      <4> SUFFICES ASSUME c.high, ~c.truncated
                   PROVE  Len(c.text) < Len(w) /\ w[Len(c.text) + 1] = "h"
        OBVIOUS
      <4>1. Len(w) = Len(c.text) + 1 + Len(pipe[s]) /\ w[Len(c.text) + 1] = "h"
        BY <3>6
      <4>2. \A a, b, n \in Nat : n = a + 1 + b => a < n
        OBVIOUS
      <4>3. Len(c.text) < Len(w)
        BY <3>5, <4>1, <4>2, Zenon
      <4> QED
        BY <4>1, <4>3
    <3>8. /\ Follows(d, w)
          /\ d.truncated => d.text = c.text
          /\ ~d.truncated => Len(d.text) = IF c.high THEN Len(c.text) + 1 ELSE Len(c.text)
      BY <3>1, <3>2, <3>7, FinishFollows DEF d
    <3>9. ~d.truncated => ~c.truncated
      BY <3>1, FinishFields DEF d
    <3>10. reader'[s] = "ended" /\ Len(d.text) > 0 => ~PairAt(w, Len(d.text))
      <4> SUFFICES ASSUME pipe[s] = <<>>, Len(d.text) > 0 PROVE ~PairAt(w, Len(d.text))
        BY <3>4
      <4>1. CASE d.truncated
        BY <3>2, <3>8, <4>1 DEF Settled, PairAt
      <4>2. CASE ~d.truncated
        <5>1. Len(pipe[s]) = 0
          OBVIOUS
        <5>2. Len(d.text) = Len(w)
          BY <3>5, <3>6, <3>8, <3>9, <4>2, <5>1
        <5> QED
          BY <3>5, <5>2 DEF PairAt
      <4> QED
        BY <4>1, <4>2
    <3> QED
      BY <2>3, <3>4, <3>8, <3>10 DEF w
  <2>6. CASE Start \/ NotStarted \/ Exit \/ LetGo \/ Timeout \/ Exited \/ Killed \/ Report \/ HandleResult
    BY <2>1, <2>6 DEF Start, NotStarted, Exit, LetGo, Timeout, Exited, Killed, TryKill, Report,
                      HandleResult, job, agent
  <2>7. CASE UNCHANGED vars
    BY <2>1, <2>7 DEF vars, job, agent
  <2> QED
    BY <1>2, <2>2, <2>4, <2>5, <2>6, <2>7 DEF Next
<1>3. CaptureInv /\ NothingLost /\ EndIsFinal /\ TypeOK /\ [Next]_vars => CaptureInv'
  BY <1>2, TypeParts
<1> QED
  BY <1>1, <1>3, NothingLostHolds, EndIsFinalHolds, TypeCorrect, PTL DEF Spec

-----------------------------------------------------------------------------
(* What the server makes of it                                             *)

LEMMA WholeFits ==
  ASSUME NEW text \in Seq(Chars), NEW max
  PROVE  /\ Whole(text, max) \subseteq 0..Len(text)
         /\ Max(Whole(text, max)) \in Whole(text, max)
         /\ Max(Whole(text, max)) \in 0..Len(text)
<1>1. Len(text) \in Nat
  BY LenProperties
<1>2. Whole(text, max) \subseteq 0..Len(text) /\ Whole(text, max) # {}
  BY <1>1 DEF Whole
<1> QED
  BY <1>1, <1>2, LargestExists

(* A text that is too long loses something. *)
LEMMA LongIsCut ==
  ASSUME NEW text \in Seq(Chars), NEW max \in Nat, TooLong(text, max)
  PROVE  Max(Whole(text, max)) < Len(text)
<1> DEFINE m == Max(Whole(text, max))
<1>1. m \in Whole(text, max) /\ m \in 0..Len(text) /\ Len(text) \in Nat
  BY WholeFits, LenProperties
<1> HIDE DEF m
<1> SUFFICES ASSUME m = Len(text) PROVE FALSE
  BY <1>1 DEF m
<1>2. CASE Len(text) = 0
  <2>1. text = <<>>
    BY <1>2, EmptySeq
  <2> QED
    BY <2>1, BytesOfNothing DEF TooLong
<1>3. CASE Len(text) # 0
  <2>1. ~TooLong(SubSeq(text, 1, Len(text)), max)
    BY <1>1, <1>3 DEF Whole
  <2> QED
    BY <2>1, SubSeqFull
<1> QED
  BY <1>2, <1>3

(* The server cuts what an agent has cut as it would the whole.            *)
LEMMA CutTwice ==
  ASSUME NEW c, Bounded(c), c.truncated, NEW w \in Seq(Chars), Follows(c, w),
         Len(c.text) > 0 => ~PairAt(w, Len(c.text))
  PROVE  CutTo(c.text, Limit) = CutTo(w, Limit)
<1> DEFINE k == Len(c.text)
           t == c.text
<1>1. k \in Nat /\ Len(w) \in Nat /\ k \in 0..Len(w) /\ t \in Seq(Chars)
  BY LenProperties DEF Bounded, Captures, Follows
<1>2. t = Beginning(w, k)
  BY DEF Follows
<1>3. \A n \in 0..k : SubSeq(t, 1, n) = SubSeq(w, 1, n)
  BY <1>1, <1>2, BeginningOfBeginning DEF Beginning
<1>4. \A i \in 1..k : t[i] = w[i]
  BY <1>1, <1>2, BeginningElements
<1>5. ~ (k > 0 /\ PairAt(w, k)) /\ Overflows(w, k)
  BY DEF Follows
<1> HIDE DEF t, k
<1>6. \A n \in 1..k : PairAt(t, n) <=> PairAt(w, n)
  <2> SUFFICES ASSUME NEW n \in 1..k PROVE PairAt(t, n) <=> PairAt(w, n)
    OBVIOUS
  <2>1. CASE n = k
    <3>1. ~PairAt(t, n)
      BY <1>1, <2>1 DEF PairAt, k, t
    <3> QED
      BY <1>1, <1>5, <2>1, <3>1
  <2>2. CASE n # k
    <3>1. n < k /\ n < Len(w) /\ n \in 1..k /\ n + 1 \in 1..k
      BY <1>1, <2>2
    <3> QED
      BY <1>4, <3>1 DEF PairAt, k, t
  <2> QED
    BY <2>1, <2>2
<1>7. \A n \in 1..Len(w) : ~PairAt(w, n) /\ ~TooLong(SubSeq(w, 1, n), Limit) => n <= k
  <2> SUFFICES ASSUME NEW n \in 1..Len(w), ~PairAt(w, n), ~TooLong(SubSeq(w, 1, n), Limit), n > k
               PROVE  FALSE
    BY <1>1
  <2>1. PICK m \in {k + 1, k + 2} : /\ m <= Len(w) /\ Bytes(Beginning(w, m)) > AgentLimit
                                    /\ m = k + 2 => w[k + 1] = "h" /\ w[k + 2] = "l"
    BY <1>5 DEF Overflows
  <2>2. CASE n < m
    <3>1. n = k + 1 /\ m = k + 2 /\ n + 1 = k + 2 /\ n < Len(w)
      BY <1>1, <2>1, <2>2
    <3> QED
      BY <2>1, <3>1 DEF PairAt
  <2>3. CASE n >= m
    <3>1. n \in 0..Len(w) /\ m \in 0..n /\ m \in 0..Len(w)
      BY <1>1, <2>1, <2>3
    <3>2. Bytes(Beginning(w, m)) <= Bytes(Beginning(w, n))
      BY <3>1, BytesGrow
    <3>3. Bytes(Beginning(w, m)) \in Nat /\ Bytes(Beginning(w, n)) \in Nat
      BY <3>1, BeginningElements, BytesIsNumber
    <3>4. ~ (Bytes(Beginning(w, n)) > Limit) /\ Limit <= AgentLimit
      BY LimitsAssumption DEF TooLong, Beginning, AgentLimit
    <3> QED
      BY <2>1, <3>2, <3>3, <3>4, LimitsAreNumbers
  <2> QED
    BY <1>1, <2>1, <2>2, <2>3
<1>8. Whole(t, Limit) = Whole(w, Limit)
  <2>1. \A n \in 1..k : n \in Whole(t, Limit) <=> n \in Whole(w, Limit)
    <3> SUFFICES ASSUME NEW n \in 1..k PROVE n \in Whole(t, Limit) <=> n \in Whole(w, Limit)
      OBVIOUS
    <3>1. n \in 1..Len(w) /\ n \in 1..Len(t) /\ n # 0 /\ n \in 0..k
      BY <1>1 DEF k, t
    <3>2. TooLong(SubSeq(t, 1, n), Limit) <=> TooLong(SubSeq(w, 1, n), Limit)
      BY <1>3, <3>1
    <3>3. PairAt(t, n) <=> PairAt(w, n)
      BY <1>6
    <3> QED
      BY <3>1, <3>2, <3>3 DEF Whole
  <2>2. \A n \in Whole(t, Limit) : n = 0 \/ n \in 1..k
    BY DEF Whole, k, t
  <2>3. \A n \in Whole(w, Limit) : n = 0 \/ n \in 1..k
    BY <1>1, <1>7 DEF Whole
  <2>4. 0 \in Whole(t, Limit) /\ 0 \in Whole(w, Limit)
    BY DEF Whole
  <2>5. \A n : n \in Whole(t, Limit) <=> n \in Whole(w, Limit)
    BY <2>1, <2>2, <2>3, <2>4, Zenon
  <2> QED
    BY <2>5
<1>9. Max(Whole(t, Limit)) \in 0..k
  BY <1>1, WholeFits DEF k, t
<1>10. SubSeq(t, 1, Max(Whole(t, Limit))) = SubSeq(w, 1, Max(Whole(t, Limit)))
  BY <1>3, <1>9
<1> QED
  BY <1>8, <1>10 DEF CutTo, t

(* What is stored of an output is the longest part of it that fits the     *)
(* limit of the job with no character torn, whatever the limit of the      *)
(* agent, and it is flagged if and only if it is not all; of an output     *)
(* whose reading was cut off by the timeout it is a part from the          *)
(* beginning, which is never flagged without reason.                       *)
THEOREM StoredOutputFits == Spec => []StoredFits
<1>1. CaptureInv /\ NothingLost /\ EndIsFinal /\ ResultFits /\ UnflaggedIsWhole /\ TypeOK
        => StoredFits
  <2> SUFFICES ASSUME CaptureInv, NothingLost, EndIsFinal, ResultFits, UnflaggedIsWhole,
                      ReadTypeOK, SentTypeOK, JobTypeOK,
                      stored.state = "Completed", NEW s \in Streams
               PROVE  /\ reader[s] = "ended" => /\ stored.text[s] = CutTo(wrote[s], Limit)
                                                /\ stored.cut[s] <=> stored.text[s] # wrote[s]
                      /\ reader[s] = "cancelled" =>
                           stored.text[s] = SubSeq(wrote[s], 1, Len(stored.text[s]))
                      /\ stored.cut[s] => stored.text[s] # wrote[s]
    BY TypeParts DEF StoredFits
  <2> DEFINE c == capture[s]
             w == wrote[s]
             t == c.text
             k == Len(t)
             m == Max(Whole(t, Limit))
  <2>1. /\ sent \in Results /\ stored = LimitOutput(sent)
        /\ sent.text[s] = t /\ sent.cut[s] = c.truncated
    BY DEF ResultFits, SentTypeOK
  <2>2. /\ stored.text[s] = CutTo(t, Limit)
        /\ stored.cut[s] = (c.truncated \/ TooLong(t, Limit))
    BY <2>1 DEF LimitOutput, Results
  <2>3. /\ Bounded(c) /\ w \in Seq(Chars) /\ t \in Seq(Chars) /\ Limit \in Nat
        /\ Follows(c, w) /\ k \in Nat /\ Len(w) \in Nat
    BY LenProperties, LimitsAssumption DEF Bounded, Captures, ReadTypeOK, JobTypeOK, CaptureInv
  <2>4. m \in 0..k
    BY <2>3, WholeFits
  <2>5. k <= Len(w) /\ t = Beginning(w, k) /\ k \in 0..Len(w)
    BY <2>3 DEF Follows
  <2>6. reader[s] = "ended" /\ k > 0 => ~PairAt(w, k)
    BY DEF CaptureInv
  <2>7. reader[s] = "ended" /\ ~c.truncated => t = w
    <3>1. reader[s] = "ended" => pipe[s] = <<>> /\ ~c.high
      BY DEF EndIsFinal
    <3>2. reader[s] = "ended" /\ ~c.truncated => w = (t \o <<>>) \o <<>>
      BY <3>1 DEF NothingLost, ReadSoFar, Waiting
    <3>3. t \o <<>> = t
      BY <2>3, ConcatEmptySeq
    <3> QED
      BY <3>2, <3>3
  <2> HIDE DEF c, w, t, k, m
  <2>8. CutTo(t, Limit) = Beginning(w, m) /\ Len(CutTo(t, Limit)) = m
    <3>1. Beginning(t, m) = Beginning(w, m) /\ Len(Beginning(w, m)) = m
      <4>1. m \in 0..Len(w)
        BY <2>3, <2>4, <2>5
      <4>2. Beginning(Beginning(w, k), m) = Beginning(w, m)
        BY <2>3, <2>4, <2>5, BeginningOfBeginning
      <4> QED
        BY <2>3, <2>5, <4>1, <4>2, BeginningElements
    <3> QED
      BY <3>1 DEF CutTo, Beginning, m
  <2>9. stored.cut[s] => stored.text[s] # w
    <3>1. CASE c.truncated
      <4>1. k < Len(w)
        BY <2>3, <3>1 DEF Follows, Overflows, k, t
      <4> QED
        BY <2>2, <2>3, <2>4, <2>8, <4>1
    <3>2. CASE TooLong(t, Limit)
      <4>1. m < k
        BY <2>3, <3>2, LongIsCut DEF m, k
      <4> QED
        BY <2>2, <2>3, <2>4, <2>5, <2>8, <4>1
    <3> QED
      BY <2>2, <3>1, <3>2
  <2>10. stored.text[s] = SubSeq(w, 1, Len(stored.text[s]))
    BY <2>2, <2>8 DEF Beginning
  <2>11. reader[s] = "ended" => stored.text[s] = CutTo(w, Limit)
    <3>1. CASE c.truncated
      BY <2>2, <2>3, <2>6, <3>1, CutTwice DEF t, k
    <3>2. CASE ~c.truncated
      BY <2>2, <2>7, <3>2
    <3> QED
      BY <3>1, <3>2
  <2>12. reader[s] = "ended" => (stored.cut[s] <=> stored.text[s] # w)
    <3>1. reader[s] = "ended" /\ ~stored.cut[s] => stored.text[s] = w
      BY DEF UnflaggedIsWhole, w
    <3>2. stored.cut[s] \in BOOLEAN
      BY DEF SentTypeOK, Results
    <3> QED
      BY <2>9, <3>1, <3>2
  <2> QED
    BY <2>9, <2>10, <2>11, <2>12 DEF w
<1> QED
  BY <1>1, CaptureInvHolds, NothingLostHolds, EndIsFinalHolds, ResultFitsHolds,
     UnflaggedIsComplete, TypeCorrect, PTL
=============================================================================
