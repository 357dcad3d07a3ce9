---------------------------- MODULE MadvHistory ----------------------------
(***************************************************************************)
(* TestDrmMm with a history variable: the last word of advice the log has  *)
(* given on each buffer, whatever the program has made of it.              *)
(***************************************************************************)
EXTENDS TestDrmMm

VARIABLE advised

HistoryInit == Init /\ advised = [b \in {} |-> None]

(* A buffer is wanted until the log says otherwise.                        *)
Remember(b, word) ==
  advised' = [c \in DOMAIN buffers' |->
                IF c = b THEN word ELSE IF c \in Live THEN advised[c] ELSE "willneed"]

HistoryNext ==
  \/ \E b \in Node, word \in Madv : BufMadv(b, word) /\ Remember(b, word)
  \/ Run /\ Remember(None, "willneed")

HistorySpec == HistoryInit /\ [][HistoryNext]_<<vars, advised>>

(* Every buffer whose last advice is that it is not needed, and that may   *)
(* go, has left the pool before others are paged out (README: "When the    *)
(* pool is full, it will first remove all of the purgeable buffers before  *)
(* trying to page out any buffers").                                       *)
PurgesBeforePagingOut ==
  pc = "page_out" => \A b \in allocated : advised[b] = "dontneed" => Pinned(b)
=============================================================================
