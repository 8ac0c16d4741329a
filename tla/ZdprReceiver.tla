---------------------------- MODULE ZdprReceiver ----------------------------
(***************************************************************************)
(* The receiving half of a reliable ZDP session (`Receiver` of zdpr.rs).   *)
(* The two bitsets are the sets of the positions of their 1 bits; position *)
(* i stands for sequence number highest_seen - i.                          *)
(***************************************************************************)
EXTENDS Integers

CONSTANTS
    Window,     \* window_size: the window this receiver is willing to accept
    Bits        \* WindowBitset::BITS, also MAX_WINDOW_SIZE

\* The assertions of Receiver::new.
ASSUME WindowAssumption == /\ Window \in Nat /\ Bits \in Nat
                           /\ 1 <= Window /\ Window <= Bits

Positions == 0..(Bits - 1)

\* highest_seen is SeqNum::MAX, "one before 0"; every bit of both sets is 1.
new_receiver ==
    [highest_seen |-> -1, recvd |-> Positions, canceled |-> Positions]

\* -BITS + leading_ones + 1: minus the highest 0 bit, or 1 when there is none.
oldest_unrecvd_offset(r) ==
    LET unrecvd == Positions \ r.recvd
    IN  IF unrecvd = {} THEN 1
        ELSE -(CHOOSE i \in unrecvd : \A j \in unrecvd : j <= i)

\* x << n.  Shifting a u64 by 64 panics in a debug build; a release build
\* masks the shift to 6 bits and leaves x as it is, and that is the outcome
\* followed here.
ShiftLeft(x, n) == {i + (n % Bits) : i \in x} \cap Positions

\* Mutant of too_old: the oldest packet of the window is left out.
too_old_early(r, sn) == sn - r.highest_seen <= -(Window - 1)

too_old(r, sn) == sn - r.highest_seen <= -Window
too_new(r, sn) == sn - r.highest_seen >= oldest_unrecvd_offset(r) + Window
newer(r, sn)   == sn > r.highest_seen
\* Mutant of was_recvd: the newest packet is not recognised.
was_recvd_older(r, sn) == sn < r.highest_seen /\ (r.highest_seen - sn) \in r.recvd

was_recvd(r, sn) == sn <= r.highest_seen /\ (r.highest_seen - sn) \in r.recvd

should_process_packet(r, sn) ==
    ~too_old(r, sn) /\ ~too_new(r, sn) /\ ~was_recvd(r, sn)

\* Mutant of process_packet_or_cancel: a late cancel is not marked as received.
process_cancel_unmarked(r, sn, is_cancel) ==
    LET offset == sn - r.highest_seen
    IN  IF ~should_process_packet(r, sn) THEN r
        ELSE IF newer(r, sn)
        THEN [highest_seen |-> sn,
              recvd    |-> ShiftLeft(r.recvd, offset) \cup {0},
              canceled |-> ShiftLeft(r.canceled, offset)
                             \cup (IF is_cancel THEN {0} ELSE {})]
        ELSE [r EXCEPT !.recvd = @ \cup (IF is_cancel THEN {} ELSE {-offset}),
                       !.canceled = @ \cup (IF is_cancel THEN {-offset} ELSE {})]

\* The receiver after a packet or a cancellation request.
process_packet_or_cancel(r, sn, is_cancel) ==
    LET offset == sn - r.highest_seen
    IN  IF ~should_process_packet(r, sn) THEN r
        ELSE IF newer(r, sn)
        THEN [highest_seen |-> sn,
              recvd    |-> ShiftLeft(r.recvd, offset) \cup {0},
              canceled |-> ShiftLeft(r.canceled, offset)
                             \cup (IF is_cancel THEN {0} ELSE {})]
        ELSE [r EXCEPT !.recvd = @ \cup {-offset},
                       !.canceled = @ \cup (IF is_cancel THEN {-offset} ELSE {})]

\* Mutant of disposition: a duplicate is answered by what is asked now.
disposition_as_asked(r, sn, is_cancel) ==
    CASE too_old(r, sn) \/ too_new(r, sn) -> "Ignore"
      [] OTHER -> IF is_cancel THEN "AckCancelDoNotProcess" ELSE "AckDoNotProcess"

\* The Disposition it returns.
disposition(r, sn, is_cancel) ==
    CASE too_old(r, sn) \/ too_new(r, sn) -> "Ignore"
      [] was_recvd(r, sn) /\ ~too_old(r, sn) ->
           (IF r.highest_seen - sn \in r.canceled THEN "AckCancelDoNotProcess"
                                                  ELSE "AckDoNotProcess")
      [] OTHER -> IF is_cancel THEN "AckCancelDoNotProcess" ELSE "AckAndProcess"

=============================================================================
