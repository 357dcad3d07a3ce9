------------------------------ MODULE ProcPool ------------------------------
(***************************************************************************)
(* The third pool of the simulation: class ProcPool of cma-pool-log.py,    *)
(* the C program test-drm-mm it runs, and the two pipes between them.      *)
(* Lines are the unit of both pipes.  A command has no answer; a dump is   *)
(* answered by several lines, the last of which starts with a brace.       *)
(*                                                                         *)
(* Of the pool that the C program keeps (TestDrmMm), only what decides     *)
(* whether the three pools stay alike is left: which buffers exist, which  *)
(* are in use, and how many commands have been applied.  Which buffers are *)
(* paged in, and so listed by a dump, is left open, and so is whether an   *)
(* assertion fails while a buffer is paged in (see AbortsOnlyOnBadSize).   *)
(*                                                                         *)
(* An operator headed "Mistaken" is a plausible error in the definition    *)
(* that follows it, put in its place to see that a property notices.       *)
(***************************************************************************)
EXTENDS Lists

CONSTANTS
  Name,        \* the buffer addresses a log may contain
  NameSpace,   \* the C program reads an address modulo this (2^32)
  BufferSize,  \* lines that fit in Python's buffer for the pipe
  PipeSize,    \* lines that fit in a pipe
  None

ASSUME ProcPoolConstants ==
  /\ Name \subseteq Nat
  /\ NameSpace \in Nat \ {0}
  /\ BufferSize \in Nat \ {0}
  /\ PipeSize \in Nat \ {0}

VARIABLES
  call,        \* where a call of the ProcPool stands: none, flush, reply, failed
  written,     \* lines in the buffer of proc.stdin
  to_c,        \* lines in the pipe to the C program
  from_c,      \* lines in the pipe back
  parts,       \* lines of the answer read so far
  answer,      \* _paged_in_buffers: the last answer, None if it is out of date
  overflow,    \* the overflow attribute, given as the number of commands
               \* that had been applied when it was computed
  c,           \* the C program: reading, replying, aborted or exited
  c_buffers,   \* its buffers: name -> in_use
  c_line,      \* the number of commands it has applied
  reply        \* lines of a dump it has not got rid of yet

pipeVars == <<written, to_c, from_c>>
cVars == <<c, c_buffers, c_line, reply>>
procVars == <<call, written, to_c, from_c, parts, answer, overflow, c,
              c_buffers, c_line, reply>>

Cmds == {"create", "destroy", "add_usecnt", "remove_usecnt", "use"}
Command == [cmd: Cmds, buf_id: Name]
Dump == [cmd |-> "dump"]
EndOfReply == [is |-> "end"]
Part == [is : {"overflow"}, overflow : Nat]
        \cup [is : {"buffer"}, name : Nat, in_use : BOOLEAN]

ASSUME NoneIsNoCommand == None \notin Command

ProcInit ==
  /\ call = "none"
  /\ written = <<>> /\ to_c = <<>> /\ from_c = <<>> /\ parts = <<>>
  /\ answer = None /\ overflow = 0
  /\ c = "reading" /\ c_buffers = [n \in {} |-> FALSE] /\ c_line = 0
  /\ reply = <<>>

-----------------------------------------------------------------------------
(* The Python side *)

(* process_command: the line is only buffered. *)
ProcessCommand(m) ==
  /\ call = "none" /\ Len(written) < BufferSize
  /\ answer' = None
  /\ written' = Append(written, m)
  /\ UNCHANGED <<call, to_c, from_c, parts, overflow, cVars>>

(* paged_in_buffers, when there is no answer to go by. *)
AskForDump ==
  /\ call = "none" /\ answer = None /\ Len(written) < BufferSize
  /\ written' = Append(written, Dump)
  /\ call' = "flush"
  /\ UNCHANGED <<to_c, from_c, parts, answer, overflow, cVars>>

(* What is buffered goes to the pipe when it is flushed, when the buffer   *)
(* is full, and when Python exits; the write blocks while the pipe is full *)
(* and fails when nobody will read it.                                     *)
MustWrite(exiting) ==
  written # <<>> /\ (call = "flush" \/ Len(written) = BufferSize \/ exiting)

WriteOut(exiting) ==
  /\ MustWrite(exiting) /\ c \in {"reading", "replying"}
  /\ Len(to_c) < PipeSize
  /\ to_c' = Append(to_c, Head(written))
  /\ written' = Tail(written)
  /\ UNCHANGED <<call, from_c, parts, answer, overflow, cVars>>

(* BrokenPipeError *)
WriteFails(exiting) ==
  /\ MustWrite(exiting) /\ c = "aborted"
  /\ written' = <<>>
  /\ call' = "failed"
  /\ UNCHANGED <<to_c, from_c, parts, answer, overflow, cVars>>

Flushed ==
  /\ call = "flush" /\ written = <<>>
  /\ call' = "reply"
  /\ UNCHANGED <<pipeVars, parts, answer, overflow, cVars>>

(* Mistaken: the answer is taken to be over before its last line. *)
LastPartTooSoon(l) == l.is # "overflow"

LastPart(l) == l = EndOfReply

(* The loop over proc.stdout, up to the line that ends the answer. *)
ReadPart ==
  /\ call = "reply" /\ from_c # <<>> /\ ~LastPart(Head(from_c))
  /\ parts' = Append(parts, Head(from_c))
  /\ from_c' = Tail(from_c)
  /\ UNCHANGED <<call, written, to_c, answer, overflow, cVars>>

(* That line ends the loop; the parts are put together. *)
ReadLastPart ==
  /\ call = "reply" /\ from_c # <<>> /\ LastPart(Head(from_c))
  /\ from_c' = Tail(from_c)
  /\ overflow' = parts[1].overflow
  /\ answer' = {parts[k] : k \in 2..Len(parts)}
  /\ parts' = <<>>
  /\ call' = "none"
  /\ UNCHANGED <<written, to_c, cVars>>

(* The output ends instead: json.loads raises. *)
ReplyCutOff ==
  /\ call = "reply" /\ from_c = <<>> /\ c = "aborted"
  /\ call' = "failed"
  /\ UNCHANGED <<pipeVars, parts, answer, overflow, cVars>>

-----------------------------------------------------------------------------
(* The C program *)

(* sscanf with SCNx32 *)
LowName(n) == n % NameSpace

(* Mistaken: remove_usecnt only prints its message. *)
AfterInCStillInUse(bufs, m) ==
  LET n == LowName(m.buf_id)
      live == DOMAIN bufs
  IN  CASE m.cmd = "create" ->
             [x \in live \cup {n} |-> IF x \in live THEN bufs[x] ELSE FALSE]
        [] m.cmd = "destroy" -> [x \in live \ {n} |-> bufs[x]]
        [] m.cmd = "add_usecnt" /\ n \in live -> [bufs EXCEPT ![n] = TRUE]
        [] OTHER -> bufs

(* What a command makes of the buffers: one that does not apply is refused *)
(* with a message, a usecnt that is there or gone already is not.          *)
AfterInC(bufs, m) ==
  LET n == LowName(m.buf_id)
      live == DOMAIN bufs
  IN  CASE m.cmd = "create" ->
             [x \in live \cup {n} |-> IF x \in live THEN bufs[x] ELSE FALSE]
        [] m.cmd = "destroy" -> [x \in live \ {n} |-> bufs[x]]
        [] m.cmd = "add_usecnt" /\ n \in live -> [bufs EXCEPT ![n] = TRUE]
        [] m.cmd = "remove_usecnt" /\ n \in live -> [bufs EXCEPT ![n] = FALSE]
        [] OTHER -> bufs

CApply ==
  /\ c = "reading" /\ to_c # <<>> /\ Head(to_c) # Dump
  /\ to_c' = Tail(to_c)
  /\ c_buffers' = AfterInC(c_buffers, Head(to_c))
  /\ c_line' = c_line + 1
  /\ UNCHANGED <<call, written, from_c, parts, answer, overflow, c, reply>>

(* BUG_ON while a buffer is paged in; what is in the pipe is lost. *)
CAbort ==
  /\ c = "reading" /\ to_c # <<>> /\ Head(to_c).cmd \in {"create", "use"}
  /\ c' = "aborted"
  /\ to_c' = <<>>
  /\ UNCHANGED <<call, written, from_c, parts, answer, overflow, c_buffers,
                 c_line, reply>>

(* dump_data: the overflow, then the buffers that are paged in. *)
CDump ==
  /\ c = "reading" /\ to_c # <<>> /\ Head(to_c) = Dump
  /\ to_c' = Tail(to_c)
  /\ \E paged_in \in SUBSET DOMAIN c_buffers :
       reply' = <<[is |-> "overflow", overflow |-> c_line]>>
                \o SetToSeq({[is |-> "buffer", name |-> n, in_use |-> c_buffers[n]] :
                               n \in paged_in})
                \o <<EndOfReply>>
  /\ c' = "replying"
  /\ UNCHANGED <<call, written, from_c, parts, answer, overflow, c_buffers,
                 c_line>>

(* Mistaken: the last line stays in the buffer of stdout (no fflush). *)
CReplyUnflushed ==
  /\ c = "replying" /\ Len(from_c) < PipeSize
  /\ c' = IF Len(reply) = 2 THEN "reading" ELSE c
  /\ from_c' = Append(from_c, Head(reply))
  /\ reply' = Tail(reply)
  /\ UNCHANGED <<call, written, to_c, parts, answer, overflow, c_buffers, c_line>>

(* The lines leave the C program one by one as the pipe has room, the last *)
(* of them at the fflush.                                                  *)
CReply ==
  /\ c = "replying" /\ Len(from_c) < PipeSize
  /\ c' = IF Len(reply) = 1 THEN "reading" ELSE c
  /\ from_c' = Append(from_c, Head(reply))
  /\ reply' = Tail(reply)
  /\ UNCHANGED <<call, written, to_c, parts, answer, overflow, c_buffers, c_line>>

(* The end of the input, once Python has closed its end of the pipe. *)
CEndOfFile ==
  /\ c = "reading" /\ to_c = <<>>
  /\ c' = "exited"
  /\ UNCHANGED <<call, pipeVars, parts, answer, overflow, c_buffers, c_line, reply>>

CStep == CApply \/ CAbort \/ CDump \/ CReply

-----------------------------------------------------------------------------
ProcTypeOK ==
  /\ call \in {"none", "flush", "reply", "failed"}
  /\ written \in Seq(Command \cup {Dump}) /\ Len(written) <= BufferSize
  /\ to_c \in Seq(Command \cup {Dump}) /\ Len(to_c) <= PipeSize
  /\ from_c \in Seq(Part \cup {EndOfReply}) /\ Len(from_c) <= PipeSize
  /\ parts \in Seq(Part) /\ reply \in Seq(Part \cup {EndOfReply})
  /\ overflow \in Nat
  /\ c \in {"reading", "replying", "aborted", "exited"}
  /\ IsFiniteSet(DOMAIN c_buffers)
  /\ \A n \in DOMAIN c_buffers : n \in Nat /\ c_buffers[n] \in BOOLEAN
  /\ c_line \in Nat

(* Python and the C program take turns: outside a question no line of an   *)
(* answer is on its way or half read, which the next question would take   *)
(* for its own; and nothing follows a question into the pipe before its    *)
(* answer has been read.                                                   *)
NoAnswerUnread ==
  /\ call = "none" => from_c = <<>> /\ reply = <<>> /\ parts = <<>>
  /\ \A k \in 1..Len(to_c \o written) :
       (to_c \o written)[k] = Dump => /\ call \in {"flush", "reply"}
                                      /\ k = Len(to_c \o written)
=============================================================================
