----------------------------- MODULE JobOutput ------------------------------
(***************************************************************************)
(* One job's output, from the script's two streams to the stored result    *)
(* (ScriptExecutor.cs, OutputCapture.cs, AgentWorker.cs: Attest;           *)
(* main.py: handle_result; protocol.py: parse_result, limit_output).       *)
(*                                                                         *)
(* A character is a UTF-16 code unit, told apart by its size in UTF-8:     *)
(* "a" takes one byte, "w" three, "h" and "l" are the halves of a          *)
(* surrogate pair, four bytes together and three each (as U+FFFD) alone.   *)
(* What a script writes to its error stream is no CLIXML, which            *)
(* CliXml.Decode leaves as it is.  The session stays up; what its end does *)
(* is in ControlPlane.                                                     *)
(***************************************************************************)
EXTENDS Integers, Sequences, FiniteSetsExt

CONSTANTS
  Limit,        \* max_output_bytes of the job
  LegacyLimit,  \* what an agent that does not hold to it keeps
  PipeSize,     \* characters a pipe holds
  OutChars, ErrChars,  \* the characters a script writes to its streams ...
  MaxWrites,    \* ... and how many it writes in all: bounds of the model
  RequireAttestation   \* REQUIRE_ATTESTATION

ASSUME LimitsAssumption == Limit \in Nat /\ LegacyLimit \in Nat /\ Limit <= LegacyLimit
ASSUME SizesAssumption  == PipeSize \in Nat \ {0} /\ MaxWrites \in Nat
ASSUME CharsAssumption  == OutChars \cup ErrChars \subseteq {"a", "w", "h", "l"}
ASSUME AttestAssumption == RequireAttestation \in BOOLEAN

Streams == {"out", "err"}
Chars   == {"a", "w", "h", "l"}
Writes  == [stream : {"out"}, char : OutChars] \cup [stream : {"err"}, char : ErrChars]
Scripts == UNION {[1..n -> Writes] : n \in 0..MaxWrites}

VARIABLES
  \* the agent and its dispatch
  legacy,     \* it predates attestation and the limit in bytes
  intact,     \* the script fits the hash it was dispatched with
  runner,     \* RunAsync: "new", "waiting" for the exit, "collecting" the output, "done"
  expired,    \* the timeout has cancelled the token
  reader,     \* per stream, ReadAsync: "reading", "ended" or "cancelled"
  capture,    \* per stream, its Utf8Budget
  \* the script
  todo,       \* what it has yet to write
  process,    \* "none", "running", "exited" or "killed"
  held,       \* a process it started holds its streams too
  pipe,       \* per stream, written and not yet read
  \* the result
  sent,       \* what the agent made of it
  stored,     \* what the server did
  \* history
  wrote       \* per stream, all that was written

agent == <<legacy, intact>>
job   == <<todo, process, held, pipe, wrote>>
vars  == <<agent, runner, expired, reader, capture, job, sent, stored>>

AgentLimit == IF legacy THEN LegacyLimit ELSE Limit

Captures == [text : Seq(Chars), bytes : 0..LegacyLimit, high : BOOLEAN, truncated : BOOLEAN]
EmptyCapture == [text |-> <<>>, bytes |-> 0, high |-> FALSE, truncated |-> FALSE]

Results == [state : {"none", "Completed", "TimedOut", "Failed"},
            text : [Streams -> Seq(Chars)], cut : [Streams -> BOOLEAN]]
Without(state) == [state |-> state, text |-> [s \in Streams |-> <<>>],
                   cut |-> [s \in Streams |-> FALSE]]
NoResult == Without("none")

TypeOK ==
  /\ legacy \in BOOLEAN /\ intact \in BOOLEAN
  /\ runner \in {"new", "waiting", "collecting", "done"}
  /\ expired \in BOOLEAN
  /\ reader \in [Streams -> {"reading", "ended", "cancelled"}]
  /\ capture \in [Streams -> Captures]
  /\ \A s \in Streams : capture[s].bytes <= AgentLimit
  /\ todo \in Seq(Writes)
  /\ process \in {"none", "running", "exited", "killed"}
  /\ held \in BOOLEAN
  /\ pipe \in [Streams -> Seq(Chars)]
  /\ \A s \in Streams : Len(pipe[s]) <= PipeSize
  /\ sent \in Results /\ stored \in Results
  /\ wrote \in [Streams -> Seq(Chars)]

Init ==
  /\ legacy \in BOOLEAN
  /\ intact \in BOOLEAN
  /\ legacy => intact
  /\ runner = "new"
  /\ expired = FALSE
  /\ reader = [s \in Streams |-> "reading"]
  /\ capture = [s \in Streams |-> EmptyCapture]
  /\ todo \in Scripts
  /\ process = "none"
  /\ held \in BOOLEAN
  /\ pipe = [s \in Streams |-> <<>>]
  /\ sent = NoResult /\ stored = NoResult
  /\ wrote = [s \in Streams |-> <<>>]

-----------------------------------------------------------------------------
(* UTF-8                                                                   *)

(* A surrogate pair begins at i. *)
PairAt(text, i) == i < Len(text) /\ text[i] = "h" /\ text[i + 1] = "l"

(* Utf8Length, of an unpaired character. *)
Utf8Length(c) == IF c = "a" THEN 1 ELSE 3

(* The size of the character that begins at i, if one does. *)
SizeAt(text, i) == IF PairAt(text, i) THEN 4
                   ELSE IF i > 1 /\ PairAt(text, i - 1) THEN 0
                   ELSE Utf8Length(text[i])

(* len(protocol.utf8(text)) *)
Bytes(text) == MapThenSumSet(LAMBDA i : SizeAt(text, i), DOMAIN text)

TooLong(text, max) == Bytes(text) > max

(* The lengths at which no character is torn and max bytes not exceeded.   *)
Whole(text, max) ==
  {0} \cup {n \in 1..Len(text) : ~PairAt(text, n) /\ ~TooLong(SubSeq(text, 1, n), max)}

(* encoded[:max].decode("utf-8", "ignore") *)
CutTo(text, max) == SubSeq(text, 1, Max(Whole(text, max)))

-----------------------------------------------------------------------------
(* OutputCapture.cs                                                        *)

Keep(c, chars, size) ==
  IF c.bytes + size > AgentLimit THEN [c EXCEPT !.truncated = TRUE]
  ELSE [c EXCEPT !.text = @ \o chars, !.bytes = @ + size]

(* Finish; and what Append does when the second half does not come. *)
Finish(c) ==
  LET unpaired == [c EXCEPT !.high = FALSE]
  IN  IF c.high /\ ~c.truncated THEN Keep(unpaired, <<"h">>, 3) ELSE unpaired

KeepOrWait(c, char) ==
  IF char = "h" THEN [c EXCEPT !.high = TRUE]
  ELSE Keep(c, <<char>>, Utf8Length(char))

(* Mutated form: what does not fit is left out, and the rest goes on. *)
AppendWhatFits(c, char) ==
  IF c.high /\ char = "l" THEN Keep([c EXCEPT !.high = FALSE], <<"h", "l">>, 4)
  ELSE KeepOrWait(Finish(c), char)

(* Append, one character of the chunk. *)
AppendChar(c, char) ==
  IF c.truncated THEN c
  ELSE IF c.high /\ char = "l" THEN Keep([c EXCEPT !.high = FALSE], <<"h", "l">>, 4)
  ELSE IF Finish(c).truncated THEN Finish(c)
  ELSE KeepOrWait(Finish(c), char)

(* Mutated form: reading stops when nothing more is kept. *)
UntilTruncated(s) == reader[s] = "reading" /\ ~capture[s].truncated

Reads(s) == reader[s] = "reading"

(* ReadAsync, one character: how the pipe's content falls into chunks      *)
(* makes no difference to Append.                                          *)
Read(s) ==
  /\ process # "none"
  /\ Reads(s)
  /\ pipe[s] # <<>>
  /\ pipe' = [pipe EXCEPT ![s] = Tail(@)]
  /\ capture' = [capture EXCEPT ![s] = AppendChar(@, Head(pipe[s]))]
  /\ UNCHANGED <<agent, runner, expired, reader, todo, process, held, wrote, sent, stored>>

Ends(s, how) ==
  /\ reader' = [reader EXCEPT ![s] = how]
  /\ capture' = [capture EXCEPT ![s] = Finish(@)]
  /\ UNCHANGED <<agent, runner, expired, job, sent, stored>>

(* read = 0: nothing is left, and nobody can write any more. *)
EndOfStream(s) ==
  /\ process \in {"exited", "killed"}
  /\ ~held
  /\ Reads(s)
  /\ pipe[s] = <<>>
  /\ Ends(s, "ended")

(* Mutated form: the read is not given the token. *)
NotCancellable(s) == FALSE

Cancellable(s) == expired /\ process # "none" /\ reader[s] = "reading"

CancelRead(s) ==
  /\ Cancellable(s)
  /\ Ends(s, "cancelled")

-----------------------------------------------------------------------------
(* The script                                                              *)

(* A full pipe blocks the script, or the process it has left behind. *)
Write ==
  /\ process = "running" \/ (process = "exited" /\ held)
  /\ todo # <<>>
  /\ LET s == Head(todo).stream
         c == Head(todo).char
     IN  /\ Len(pipe[s]) < PipeSize
         /\ pipe'  = [pipe EXCEPT ![s] = Append(@, c)]
         /\ wrote' = [wrote EXCEPT ![s] = Append(@, c)]
  /\ todo' = Tail(todo)
  /\ UNCHANGED <<agent, runner, expired, reader, capture, process, held, sent, stored>>

Exit ==
  /\ process = "running"
  /\ todo = <<>> \/ held
  /\ process' = "exited"
  /\ UNCHANGED <<agent, runner, expired, reader, capture, todo, held, pipe, wrote, sent, stored>>

(* The process left behind ends, or closes the streams. *)
LetGo ==
  /\ process = "exited"
  /\ held
  /\ held' = FALSE
  /\ UNCHANGED <<agent, runner, expired, reader, capture, todo, process, pipe, wrote, sent, stored>>

-----------------------------------------------------------------------------
(* ScriptExecutor.cs, AgentWorker.cs                                       *)

Answers(result) == runner' = "done" /\ sent' = result

(* RunAsync starts the script ... *)
Start ==
  /\ runner = "new"
  /\ intact
  /\ runner' = "waiting"
  /\ process' = "running"
  /\ UNCHANGED <<agent, expired, reader, capture, todo, held, pipe, wrote, sent, stored>>

(* ... or refuses it, or cannot. *)
NotStarted ==
  /\ runner = "new"
  /\ Answers(Without("Failed"))
  /\ UNCHANGED <<agent, expired, reader, capture, job, stored>>

(* CancelAfter *)
Timeout ==
  /\ runner \in {"waiting", "collecting"}
  /\ ~expired
  /\ expired' = TRUE
  /\ UNCHANGED <<agent, runner, reader, capture, job, sent, stored>>

(* WaitForExitAsync returns ... *)
Exited ==
  /\ runner = "waiting"
  /\ process = "exited"
  /\ ~expired
  /\ runner' = "collecting"
  /\ UNCHANGED <<agent, expired, reader, capture, job, sent, stored>>

(* The script and what it has started, unless it has exited. *)
TryKill ==
  IF process = "running"
  THEN process' = "killed" /\ held' = FALSE
  ELSE UNCHANGED <<process, held>>

(* ... or is cancelled: nothing of the output is reported. *)
Killed ==
  /\ runner = "waiting"
  /\ expired
  /\ TryKill
  /\ Answers(Without("TimedOut"))
  /\ UNCHANGED <<agent, expired, reader, capture, todo, pipe, wrote, stored>>

(* Both reads have ended, whichever way. *)
Report ==
  /\ runner = "collecting"
  /\ \A s \in Streams : reader[s] # "reading"
  /\ Answers([state |-> "Completed",
              text |-> [s \in Streams |-> capture[s].text],
              cut  |-> [s \in Streams |-> capture[s].truncated]])
  /\ UNCHANGED <<agent, expired, reader, capture, job, stored>>

-----------------------------------------------------------------------------
(* main.py, protocol.py                                                    *)

(* verify_result: the hash of another script, and without attestation      *)
(* nothing at all, is refused.                                             *)
Verified == IF legacy THEN ~RequireAttestation ELSE intact

(* limit_output *)
LimitOutput(result) ==
  [result EXCEPT !.text = [s \in Streams |-> CutTo(@[s], Limit)],
                 !.cut  = [s \in Streams |-> @[s] \/ TooLong(result.text[s], Limit)]]

(* handle_result, of a job that is still active. *)
HandleResult ==
  /\ sent # NoResult
  /\ stored = NoResult
  /\ stored' = IF Verified THEN LimitOutput(sent) ELSE Without("Failed")
  /\ UNCHANGED <<agent, runner, expired, reader, capture, job, sent>>

-----------------------------------------------------------------------------
Next == \/ Start \/ NotStarted \/ Write \/ Exit \/ LetGo
        \/ \E s \in Streams : Read(s) \/ EndOfStream(s) \/ CancelRead(s)
        \/ Timeout \/ Exited \/ Killed \/ Report \/ HandleResult

Spec == Init /\ [][Next]_vars

(* The machine lets the script write and the agent's tasks run; neither    *)
(* the exit of a process nor the timeout is taken for granted.             *)
Fairness ==
  /\ WF_vars(Write) /\ WF_vars(Killed) /\ WF_vars(Report)
  /\ \A s \in Streams : WF_vars(Read(s)) /\ WF_vars(CancelRead(s))

FairSpec == Spec /\ Fairness

-----------------------------------------------------------------------------
(* Properties                                                              *)

(* What is stored of a stream that was read to its end is all of it, or    *)
(* the longest part of it that fits the limit in UTF-8 with no character   *)
(* torn; and the flag says which (OutputCapture.cs: "a flag that is only   *)
(* mostly right is worse than none").  Of a stream whose read was          *)
(* cancelled it is a part from the beginning; see FlagTellsAll.            *)
StoredFits ==
  stored.state = "Completed" =>
    \A s \in Streams :
      /\ reader[s] = "ended" => /\ stored.text[s] = CutTo(wrote[s], Limit)
                                /\ stored.cut[s] <=> stored.text[s] # wrote[s]
      /\ reader[s] = "cancelled" => stored.text[s] = SubSeq(wrote[s], 1, Len(stored.text[s]))
      /\ stored.cut[s] => stored.text[s] # wrote[s]

(* A script is never stopped by its own output: short of the timeout it    *)
(* gets to write all of it, however much and in whichever order of the     *)
(* streams (OutputCapture.cs: stopping early "would turn a bounded read    *)
(* into a hang").                                                          *)
OutputIsDrained ==
  process = "running" ~> todo = <<>> \/ process # "running" \/ expired

(* Once the timeout has passed the job has an answer, also when a process  *)
(* that the script left behind holds the streams for ever.                 *)
TimeoutAnswers == expired ~> sent # NoResult

(* OutputCapture.cs: "the truncation flag is set whenever anything at all  *)
(* is discarded": once nothing is left that could write, an output without *)
(* the flag is all that was written.                                       *)
FlagTellsAll ==
  stored.state = "Completed" /\ ~held =>
    \A s \in Streams : ~stored.cut[s] => stored.text[s] = wrote[s]
=============================================================================
