----------------------------- MODULE Simulator -----------------------------
(***************************************************************************)
(* The main program of cma-pool-log.py: it reads the log, gives every      *)
(* command to three pools, and draws their state as a video whose clock    *)
(* runs behind the time stamps of the log.                                 *)
(*                                                                         *)
(* Of the two Pools (CmaPool), only the buffers that exist and those in    *)
(* use are left, as for the third (ProcPool); whether a buffer can be      *)
(* paged in is left open.  A picture is given by the number of commands    *)
(* that each of the pools had applied when it was drawn.                   *)
(*                                                                         *)
(*   read    reading the next line                                         *)
(*   draw    draw_frame, up to the third pool's answer                     *)
(*   dup     repeating the frame until the clock reaches the line          *)
(*   apply   giving the line to the pools, next being turn                 *)
(*   hold    the frames at the end                                         *)
(*   done, raised                                                          *)
(***************************************************************************)
EXTENDS ProcPool

CONSTANTS
  Second,     \* 1_000_000, the unit of the time stamps
  FrameRate,  \* Video.FRAME_RATE
  Steps,      \* what may lie between the time stamps of two lines
  MaxLines    \* bound on the length of the log

ASSUME SimulatorConstants ==
  /\ Second \in Nat \ {0}
  /\ FrameRate \in Nat \ {0}
  /\ Steps \subseteq Int
  /\ MaxLines \in Nat

VARIABLES
  pc,
  times,    \* time stamps of the lines read, relative to first_timestamp
  line,     \* the command in hand, None at the end of the log
  turn,     \* the pool it goes to next
  pools,    \* of the two Pools: buffer -> in_use
  applied,  \* the number of commands each pool has been given
  surface,  \* the picture drawn last
  frames,   \* the frames given to ffmpeg
  hold,     \* frames left to write at the end
  collided  \* history: two buffers with one name in the C program have
            \* existed at the same time

mainVars == <<pc, times, line, turn, pools, applied, surface, frames, hold,
              collided>>
vars == <<procVars, mainVars>>

Init ==
  /\ ProcInit
  /\ pc = "read" /\ times = <<>> /\ line = None /\ turn = 1
  /\ pools = [k \in 1..2 |-> [n \in {} |-> FALSE]]
  /\ applied = [k \in 1..3 |-> 0]
  /\ surface = None /\ frames = <<>> /\ hold = 0
  /\ collided = FALSE

(* Mistaken: the clock is rounded up. *)
ClockRoundedUp(n) == (n * Second + FrameRate - 1) \div FrameRate

(* Video.timestamp: the clock when n frames have been written.             *)
Clock(n) == (n * Second) \div FrameRate
Now == Clock(Len(frames))

-----------------------------------------------------------------------------
(* Reading the log *)

(* Mistaken: the video starts with the log. *)
TimeWithoutLeadIn(step) == IF times = <<>> THEN 0 ELSE times[Len(times)] + step

(* The first line comes one second after the start of the video. *)
Time(step) == IF times = <<>> THEN Second ELSE times[Len(times)] + step

(* A line that is in hand when the clock has passed it is applied at once. *)
ReadLine(m, step) ==
  /\ pc = "read" /\ Len(times) < MaxLines
  /\ times' = Append(times, Time(step))
  /\ line' = m /\ turn' = 1
  /\ pc' = IF Now < Time(step) THEN "draw" ELSE "apply"
  /\ UNCHANGED <<procVars, pools, applied, surface, frames, hold, collided>>

EndOfLog ==
  /\ pc = "read"
  /\ line' = None
  /\ pc' = "draw"
  /\ UNCHANGED <<procVars, times, turn, pools, applied, surface, frames, hold, collided>>

-----------------------------------------------------------------------------
(* Drawing *)

Ask ==
  /\ pc = "draw"
  /\ AskForDump
  /\ UNCHANGED mainVars

Picture == <<applied[1], applied[2], overflow>>

(* The third pool has answered: its buffers are drawn, then its overflow.  *)
Draw ==
  /\ pc = "draw" /\ call = "none" /\ answer # None
  /\ surface' = Picture
  /\ frames' = Append(frames, Picture)
  /\ IF line = None THEN pc' = "hold" /\ hold' = FrameRate - 1
                    ELSE pc' = "dup" /\ UNCHANGED hold
  /\ UNCHANGED <<procVars, times, line, turn, pools, applied, collided>>

DuplicateFrame ==
  /\ pc = "dup" /\ Now < times[Len(times)]
  /\ frames' = Append(frames, surface)
  /\ UNCHANGED <<procVars, pc, times, line, turn, pools, applied, surface, hold, collided>>

CaughtUp ==
  /\ pc = "dup" /\ Now >= times[Len(times)]
  /\ pc' = "apply"
  /\ UNCHANGED <<procVars, times, line, turn, pools, applied, surface, frames, hold, collided>>

HoldFrame ==
  /\ pc = "hold" /\ hold > 0
  /\ frames' = Append(frames, surface)
  /\ hold' = hold - 1
  /\ UNCHANGED <<procVars, pc, times, line, turn, pools, applied, surface, collided>>

Finish ==
  /\ pc = "hold" /\ hold = 0
  /\ pc' = "done"
  /\ UNCHANGED <<procVars, times, line, turn, pools, applied, surface, frames, hold, collided>>

-----------------------------------------------------------------------------
(* Applying *)

(* What the asserts and the dictionary of a Pool ask of a command, and     *)
(* what it makes of the buffers.                                           *)
Accepts(bufs, m) ==
  CASE m.cmd = "create" -> m.buf_id \notin DOMAIN bufs
    [] m.cmd = "add_usecnt" -> m.buf_id \in DOMAIN bufs /\ ~bufs[m.buf_id]
    [] m.cmd = "remove_usecnt" -> m.buf_id \in DOMAIN bufs /\ bufs[m.buf_id]
    [] OTHER -> m.buf_id \in DOMAIN bufs

After(bufs, m) ==
  CASE m.cmd = "create" ->
         [x \in DOMAIN bufs \cup {m.buf_id} |-> IF x = m.buf_id THEN FALSE ELSE bufs[x]]
    [] m.cmd = "destroy" -> [x \in DOMAIN bufs \ {m.buf_id} |-> bufs[x]]
    [] m.cmd = "add_usecnt" -> [bufs EXCEPT ![m.buf_id] = TRUE]
    [] m.cmd = "remove_usecnt" -> [bufs EXCEPT ![m.buf_id] = FALSE]
    [] OTHER -> bufs

ApplyToPool ==
  /\ pc = "apply" /\ turn <= 2
  /\ Accepts(pools[turn], line)
  /\ pools' = [pools EXCEPT ![turn] = After(@, line)]
  /\ applied' = [applied EXCEPT ![turn] = @ + 1]
  /\ turn' = turn + 1
  /\ UNCHANGED <<procVars, pc, times, line, surface, frames, hold, collided>>

(* An assert, a KeyError, or no room for the buffer. *)
PoolRaises ==
  /\ pc = "apply" /\ turn <= 2
  /\ pc' = "raised"
  /\ UNCHANGED <<procVars, times, line, turn, pools, applied, surface, frames, hold, collided>>

ApplyToProcPool ==
  /\ pc = "apply" /\ turn = 3
  /\ ProcessCommand(line)
  /\ applied' = [applied EXCEPT ![3] = @ + 1]
  /\ pc' = "read"
  /\ collided' = (collided \/ \E m, n \in DOMAIN pools[1] :
                                m # n /\ LowName(m) = LowName(n))
  /\ UNCHANGED <<times, line, turn, pools, surface, frames, hold>>

-----------------------------------------------------------------------------
Ended == pc \in {"done", "raised"}

(* A call of the ProcPool goes on, or fails and ends the program. *)
ProcStep ==
  /\ WriteOut(Ended) \/ WriteFails(Ended) \/ Flushed
     \/ ReadPart \/ ReadLastPart \/ ReplyCutOff
  /\ pc' = IF call' = "failed" /\ ~Ended THEN "raised" ELSE pc
  /\ UNCHANGED <<times, line, turn, pools, applied, surface, frames, hold, collided>>

Main ==
  \/ \E m \in Command, step \in Steps : ReadLine(m, step)
  \/ EndOfLog \/ Ask \/ Draw \/ DuplicateFrame \/ CaughtUp \/ HoldFrame \/ Finish
  \/ ApplyToPool \/ PoolRaises \/ ApplyToProcPool
  \/ ProcStep

CProgram ==
  /\ CStep \/ (Ended /\ written = <<>> /\ CEndOfFile)
  /\ UNCHANGED mainVars

Next == Main \/ CProgram

Spec == Init /\ [][Next]_vars

(* Two processes, each of which goes on unless it waits for the other; the *)
(* log is a file and ends.                                                 *)
FairSpec == Spec /\ WF_vars(Main) /\ WF_vars(CProgram)

-----------------------------------------------------------------------------
(* Invariants *)

TypeOK ==
  /\ ProcTypeOK
  /\ pc \in {"read", "draw", "dup", "apply", "hold", "done", "raised"}
  /\ times \in Seq(Int) /\ Len(times) <= MaxLines
  /\ line \in Command \cup {None}
  /\ turn \in 1..3 /\ hold \in 0..FrameRate - 1
  /\ pools \in [1..2 -> UNION {[live -> BOOLEAN] : live \in SUBSET Name}]
  /\ applied \in [1..3 -> Nat]
  /\ frames \in Seq(Nat \X Nat \X Nat)

(* Every frame of the video, drawn or repeated, shows in all three pools   *)
(* the log up to the first line that is later than the frame, and nothing  *)
(* of what follows; though the third pool hears of a command only when it  *)
(* is asked, its overflow is a separate attribute, the clock is rounded    *)
(* down, and time stamps may repeat or go back.  Frame k is shown at       *)
(* (k - 1) / FrameRate seconds.                                            *)
FramesShowLog ==
  \A k \in 1..Len(frames) : \E n \in 0..Len(times) :
    /\ frames[k] = <<n, n, n>>
    /\ \A j \in 1..n : times[j] * FrameRate <= (k - 1) * Second
    /\ n < Len(times) => (k - 1) * Second < times[n + 1] * FrameRate

(* The video starts with a second of empty pools and ends with a second of *)
(* the log's last state.                                                   *)
LeadInAndOut ==
  pc = "done" => \A k \in 1..Len(frames) :
    /\ k <= FrameRate => frames[k] = <<0, 0, 0>>
    /\ k > Len(frames) - FrameRate => frames[k] = <<Len(times), Len(times), Len(times)>>

(* When a frame has been drawn, the pools have the same buffers, with the  *)
(* same ones in use, and the answer lists no others, although each side    *)
(* keeps its own account and the C program goes on after a command that    *)
(* ends Python.  It holds as long as no two buffers whose addresses differ *)
(* in the upper half only exist at a time: the C program, which takes the  *)
(* address "as an identifier to find the object again" (main.c), keeps 32  *)
(* bits of it.                                                             *)
PoolsAgree ==
  pc \in {"dup", "hold"} /\ ~collided =>
    /\ pools[1] = pools[2]
    /\ DOMAIN c_buffers = {LowName(n) : n \in DOMAIN pools[1]}
    /\ \A n \in DOMAIN pools[1] : c_buffers[LowName(n)] = pools[1][n]
    /\ \A l \in answer : l.name \in DOMAIN c_buffers /\ l.in_use = c_buffers[l.name]

-----------------------------------------------------------------------------
(* The simulation ends, with its video or an exception, and the C program  *)
(* with it: the two never wait for each other, however little the pipes    *)
(* between them hold.                                                      *)
SimulationEnds == <>(Ended /\ c \in {"exited", "aborted"})
=============================================================================
