-------------------------- MODULE LinkStateProofs ---------------------------
(***************************************************************************)
(* One link, for every length of its life and every number of events: what *)
(* a ready link has, and that a link that is down holds nothing.           *)
(***************************************************************************)
EXTENDS LinkState, TLAPS

\* The fields of the state machine have their types.
Typed(s) ==
    /\ DOMAIN s = {"state", "up", "ready", "clock", "echo", "shutting_down", "timers",
                   "km", "sa", "aaa", "installed", "tun", "carrier", "auth", "reserved",
                   "drops", "joins", "terms", "stops", "restarts", "echoes", "signals",
                   "present", "special"}
    /\ s.state \in States /\ s.clock \in Nat /\ s.timers \subseteq 1..s.clock
    /\ \A f \in {"up", "ready", "echo", "shutting_down", "km", "sa", "aaa", "installed",
                  "tun", "carrier", "auth", "present", "special"} : s[f] \in BOOLEAN
    /\ \A f \in {"drops", "joins", "terms", "stops", "restarts", "echoes", "signals"} :
         s[f] \in Nat

\* What clean_up_link_state gives up is given up.
Clean(s) ==
    /\ ~s.aaa /\ ~s.installed /\ ~s.tun /\ ~s.carrier /\ ~s.auth
    /\ s.reserved = 0

\* What holds of a link in any state, also in the middle of a handler: who
\* may hold what, and that a link whose keys are being dropped, or that is
\* removed, has given up the rest.
Held(s) ==
    /\ Typed(s)
    /\ s.auth \/ s.carrier => Adapter
    /\ s.special => ~Adapter
    /\ s.reserved = IF link.pool /\ s.aaa THEN 1 ELSE 0
    /\ s.tun => s.aaa /\ s.installed
    /\ s.drops > 0 \/ s.joins > 0 \/ ~s.present => Clean(s)
    /\ s.joins > 0 \/ ~s.present => ~s.km

\* What the state of the link says about the rest of it, between handlers.
Stated(s) ==
    /\ s.ready <=> s.up /\ s.state = "Active"
    /\ s.state \in {"Keying", "Helloing", "Active"} =>
         s.up /\ s.km /\ s.present /\ s.drops = 0 /\ s.joins = 0
    /\ s.state \in {"Helloing", "Active"} => s.sa
    /\ s.state = "Active" => s.clock \in s.timers /\ (Adapter => s.carrier /\ s.auth)
    /\ s.auth => s.state = "Active"
    /\ s.state \in {"Inactive", "Keying", "Helloing"} => Clean(s)
    /\ s.state = "Inactive" => ~s.km

\* The inductive invariant.
IInv == link \in Links /\ events \in 0..MaxEvents /\ Held(lk) /\ Stated(lk)

\* A fresh link.
LEMMA InitIInv == Init => IInv
<1> SUFFICES ASSUME Init PROVE IInv
  OBVIOUS
<1>1. Typed(lk)
  BY DEF Init, new_link, Typed, States
<1>2. link \in Links /\ events \in 0..MaxEvents
  BY LinkStateAssumption DEF Init
<1>3. Held(lk) /\ Stated(lk)
  BY <1>1 DEF Init, new_link, Held, Stated, Clean
<1> QED BY <1>2, <1>3 DEF IInv

-----------------------------------------------------------------------------
(* The operators of the state machine.                                     *)

\* t is s but for the fields fs.
SameBut(s, t, fs) == \A f \in DOMAIN s \ fs : t[f] = s[f]

\* set_state keeps what holds of any state; the new state is not ready
\* unless it is Active, and nothing else changes.
LEMMA SetStateHeld ==
    ASSUME NEW s, Held(s), NEW state \in States
    PROVE  /\ Held(set_state(s, state)) /\ set_state(s, state).state = state
           /\ set_state(s, state).ready <=> s.up /\ state = "Active"
           /\ SameBut(s, set_state(s, state), {"clock", "state", "ready"})
<1> DEFINE t == set_state(s, state)
<1>1. Typed(t) /\ t.state = state /\ (t.ready <=> s.up /\ state = "Active")
  BY DEF Held, Typed, set_state, cancel_timeout
<1>2. SameBut(s, t, {"clock", "state", "ready"})
  BY DEF SameBut, Held, Typed, set_state, cancel_timeout
<1>3. Held(t)
  BY <1>1, <1>2 DEF Held, Typed, Clean, SameBut
<1> QED BY <1>1, <1>2, <1>3

\* set_timeout keeps what holds of any state, and its timer will be heeded.
LEMMA SetTimeoutHeld ==
    ASSUME NEW s, Held(s)
    PROVE  /\ Held(set_timeout(s)) /\ set_timeout(s).clock \in set_timeout(s).timers
           /\ SameBut(s, set_timeout(s), {"clock", "timers"})
<1> DEFINE t == set_timeout(s)
<1>1. t = [s EXCEPT !.clock = s.clock + 1, !.timers = s.timers \cup {s.clock + 1}]
  BY DEF Held, Typed, set_timeout, cancel_timeout
<1>2. Typed(t) /\ t.clock \in t.timers
  BY <1>1 DEF Held, Typed
<1>3. Held(t)
  BY <1>1, <1>2 DEF Held, Typed, Clean
<1>4. SameBut(s, t, {"clock", "timers"})
  BY <1>1 DEF SameBut, Held, Typed
<1> QED BY <1>2, <1>3, <1>4

\* A link that starts to close is sound in its new state, Closing.
LEMMA ContinueCloseSound ==
    ASSUME NEW s, Held(s), s.present
    PROVE  Held(continue_close(s)) /\ Stated(continue_close(s))
<1> DEFINE a == set_state(s, "Closing")  t == set_timeout(a)  u == continue_close(s)
<1>1. Held(a) /\ a.state = "Closing" /\ ~a.ready
  BY SetStateHeld DEF States
<1>2. Held(t) /\ t.state = "Closing" /\ ~t.ready
  <2> HIDE DEF a
  <2> QED BY <1>1, SetTimeoutHeld DEF Held, Typed, SameBut
<1>3. u = [t EXCEPT !.auth = FALSE, !.terms = t.terms + 1]
  BY DEF continue_close
<1> HIDE DEF t, u
<1>4. Held(u) /\ u.state = "Closing" /\ ~u.ready /\ ~u.auth
  BY <1>2, <1>3 DEF Held, Typed, Clean
<1> QED BY <1>4 DEF Stated, u

\* initiate_close leaves a sound link, Closing or, when it is the visa
\* service's, Disconnecting.
LEMMA InitiateCloseSound ==
    ASSUME NEW s, Held(s), s.present, NEW reason
    PROVE  Held(initiate_close(s, reason)) /\ Stated(initiate_close(s, reason))
<1> DEFINE t == [s EXCEPT !.shutting_down = @ \/ reason = "Shutdown"]
           a == set_state(t, "Disconnecting")
           u == [a EXCEPT !.stops = a.stops + 1]
<1>1. Held(t) /\ t.present /\ t.special = s.special
  BY DEF Held, Typed, Clean
<1>2. CASE s.special
  <2>1. initiate_close(s, reason) = u
    BY <1>2 DEF initiate_close
  <2> HIDE DEF t
  <2>2. /\ Held(a) /\ a.state = "Disconnecting" /\ ~a.ready
        /\ SameBut(t, a, {"clock", "state", "ready"})
    BY <1>1, SetStateHeld DEF States
  <2> HIDE DEF a
  <2>3. a.special
    BY <1>1, <1>2, <2>2 DEF Held, Typed, SameBut
  <2>4. Held(u) /\ u.state = "Disconnecting" /\ ~u.ready /\ ~u.auth
    BY <2>2, <2>3 DEF Held, Typed, Clean
  <2> QED BY <2>1, <2>4 DEF Stated
<1>3. CASE ~s.special
  <2>1. initiate_close(s, reason) = continue_close(t)
    BY <1>3 DEF initiate_close
  <2> QED BY <1>1, <2>1, ContinueCloseSound
<1> QED BY <1>2, <1>3

\* clean_up_link_state, in the two states it works in, gives up all but the
\* keys, and leaves a sound link.
LEMMA CleanUpSound ==
    ASSUME NEW s, Held(s), s.present, ~s.ready, s.state \in {"Closing", "Resetting"}
    PROVE  Held(clean_up_link_state(s)) /\ Stated(clean_up_link_state(s))
<1> DEFINE u == clean_up_link_state(s)
<1>1. Typed(u) /\ u.state = s.state /\ ~u.ready /\ u.present /\ u.joins = s.joins
             /\ u.km = s.km /\ u.special = s.special
  BY DEF clean_up_link_state, Held, Typed
<1>2. Clean(u)
  BY DEF clean_up_link_state, Held, Typed, Clean
<1> QED BY <1>1, <1>2 DEF Held, Stated, Clean

\* run_active makes a link that has keys, and on an adapter the carrier and
\* the word of actor authorization, a sound active one.
LEMMA RunActiveSound ==
    ASSUME NEW s, Held(s), s.present, s.up, s.km, s.sa, s.drops = 0, s.joins = 0,
           Adapter => s.carrier /\ s.auth
    PROVE  Held(run_active(s)) /\ Stated(run_active(s))
<1> DEFINE a == set_state(s, "Active")  t == set_timeout(a)  u == run_active(s)
<1>0. /\ Held(a) /\ a.state = "Active" /\ a.ready
      /\ SameBut(s, a, {"clock", "state", "ready"})
  BY SetStateHeld DEF States
<1> HIDE DEF a
<1>1. /\ a.present /\ a.up /\ a.km /\ a.sa /\ a.drops = 0 /\ a.joins = 0
      /\ Adapter => a.carrier /\ a.auth
  BY <1>0 DEF Held, Typed, SameBut
<1>2. /\ Held(t) /\ t.state = "Active" /\ t.ready /\ t.clock \in t.timers
      /\ t.present /\ t.up /\ t.km /\ t.sa /\ t.drops = 0 /\ t.joins = 0
      /\ Adapter => t.carrier /\ t.auth
  BY <1>0, <1>1, SetTimeoutHeld DEF Held, Typed, SameBut
<1>3. u = [t EXCEPT !.echo = FALSE, !.echoes = 0]
  BY DEF run_active, a
<1> HIDE DEF t, u
<1>4. Held(u)
  BY <1>2, <1>3 DEF Held, Typed, Clean
<1>5. Stated(u)
  BY <1>2, <1>3 DEF Held, Typed, Stated, Clean
<1> QED BY <1>4, <1>5 DEF u

\* complete_close, once the keys are given up, leaves a sound link.
LEMMA CompleteCloseSound ==
    ASSUME NEW s, Held(s), Stated(s), s.present, ~s.km, Clean(s)
    PROVE  Held(complete_close(s)) /\ Stated(complete_close(s))
<1> DEFINE u == complete_close(s)  a == set_state(s, "Inactive")
<1>0. /\ Held(a) /\ a.state = "Inactive" /\ ~a.ready
      /\ SameBut(s, a, {"clock", "state", "ready"})
  BY SetStateHeld DEF States
<1> HIDE DEF a
<1>1. a.present /\ ~a.km /\ Clean(a)
  BY <1>0 DEF Held, Typed, Clean, SameBut
<1>2. CASE s.state = "Resetting" \/ (s.state = "Closing" /\ ~Adapter)
  <2>1. u = [s EXCEPT !.present = FALSE]
    BY <1>2 DEF complete_close
  <2> QED BY <1>2, <2>1 DEF Held, Typed, Clean, Stated
<1>3. CASE s.state = "Closing" /\ Adapter
  <2>1. u = [a EXCEPT !.present = FALSE] \/ u = [a EXCEPT !.restarts = a.restarts + 1]
    BY <1>3 DEF complete_close, a
  <2>2. CASE u = [a EXCEPT !.present = FALSE]
    BY <1>0, <1>1, <2>2 DEF Held, Typed, Clean, Stated
  <2>3. CASE u = [a EXCEPT !.restarts = a.restarts + 1]
    BY <1>0, <1>1, <2>3 DEF Held, Typed, Clean, Stated
  <2> QED BY <2>1, <2>2, <2>3
<1>4. CASE u = s
  BY <1>4
<1> QED BY <1>2, <1>3, <1>4 DEF complete_close

-----------------------------------------------------------------------------
(* The handlers.                                                           *)

\* The link is sound after the step, as the same link.
SoundAfter == Held(lk') /\ Stated(lk')

\* process_start finds a link that holds nothing and whose tasks are done.
LEMMA StartStep == ASSUME IInv, process_start \/ StartIgnored PROVE SoundAfter
<1> USE DEF IInv
<1>1. CASE process_start
  <2> DEFINE u == [lk EXCEPT !.up = TRUE]  a == set_state(u, "Keying")
  <2>1. Held(u) /\ Clean(u) /\ u.up /\ u.present /\ u.drops = 0 /\ u.joins = 0
    BY <1>1 DEF process_start, Held, Typed, Clean, Stated
  <2> HIDE DEF u
  <2>2. /\ Held(a) /\ a.state = "Keying" /\ ~a.ready
        /\ SameBut(u, a, {"clock", "state", "ready"})
    BY <2>1, SetStateHeld DEF States
  <2> HIDE DEF a
  <2>3. Clean(a) /\ a.up /\ a.present /\ a.drops = 0 /\ a.joins = 0
    BY <2>1, <2>2 DEF SameBut, Held, Typed, Clean
  <2>4. lk' = [a EXCEPT !.km = TRUE, !.restarts = IF @ > 0 THEN @ - 1 ELSE 0]
    BY <1>1 DEF process_start, Becomes, u, a
  <2> QED BY <2>2, <2>3, <2>4 DEF SoundAfter, Held, Typed, Clean, Stated
<1>2. CASE StartIgnored
  <2>1. lk' = [lk EXCEPT !.restarts = @ - 1]
    BY <1>2 DEF StartIgnored, Becomes
  <2> QED BY <1>2, <2>1 DEF StartIgnored, SoundAfter, Held, Typed, Clean, Stated
<1> QED BY <1>1, <1>2

\* SaEstablished is only reported by a key manager that is there, and the keys
\* it brings are those of a link that is Keying.
LEMMA KeyingStep == ASSUME IInv, SaEstablished \/ process_keying_done PROVE SoundAfter
<1> USE DEF IInv
<1>1. CASE SaEstablished
  <2>1. lk' = [lk EXCEPT !.signals = 1]
    BY <1>1 DEF SaEstablished, Becomes
  <2> QED BY <2>1 DEF SoundAfter, Held, Typed, Clean, Stated
<1>2. CASE process_keying_done
  <2> DEFINE s == [lk EXCEPT !.signals = @ - 1, !.sa = lk.present]
             v == [s EXCEPT !.special = link.vs]
             t == set_state(v, "Helloing")
  <2>1. lk.signals > 0
    BY <1>2 DEF process_keying_done
  <2>2. Held(s) /\ SameBut(lk, s, {"signals", "sa"}) /\ (s.sa <=> lk.present)
    <3>1. Typed(s) /\ (s.sa <=> lk.present)
      BY <2>1 DEF Held, Typed
    <3>2. SameBut(lk, s, {"signals", "sa"})
      BY DEF Held, Typed, SameBut
    <3>3. Held(s)
      BY <3>1, <3>2 DEF Held, Typed, Clean, SameBut
    <3> QED BY <3>1, <3>2, <3>3
  <2>3. lk' = IF ~lk.present \/ lk.state # "Keying" THEN s
              ELSE IF Adapter THEN set_timeout(t) ELSE t
    BY <1>2 DEF process_keying_done, Becomes
  <2> HIDE DEF s
  <2>4. CASE ~lk.present \/ lk.state # "Keying"
    <3>1. lk' = s
      BY <2>3, <2>4
    <3> QED BY <2>2, <2>4, <3>1 DEF SoundAfter, Stated, Clean, Held, Typed, SameBut
  <2>5. CASE lk.present /\ lk.state = "Keying"
    <3>1. s.sa /\ Clean(s) /\ s.up /\ s.km /\ s.present /\ s.drops = 0 /\ s.joins = 0
      BY <2>2, <2>5 DEF Stated, Clean, Held, Typed, SameBut
    <3>2. link.vs \in BOOLEAN /\ (link.vs => ~Adapter)
      BY DEF Links, LinkTypes, Adapter
    <3>3. /\ Held(v) /\ Clean(v)
          /\ v.sa /\ v.up /\ v.km /\ v.present /\ v.drops = 0 /\ v.joins = 0
      BY <2>2, <3>1, <3>2 DEF Clean, Held, Typed
    <3> HIDE DEF v
    <3>4. /\ Held(t) /\ t.state = "Helloing" /\ ~t.ready
          /\ SameBut(v, t, {"clock", "state", "ready"})
      BY <3>3, SetStateHeld DEF States
    <3> HIDE DEF t
    <3>5. Clean(t) /\ t.sa /\ t.up /\ t.km /\ t.present /\ t.drops = 0 /\ t.joins = 0
      BY <3>3, <3>4 DEF SameBut, Held, Typed, Clean
    <3>6. CASE Adapter
      <4>1. /\ Held(set_timeout(t))
            /\ SameBut(t, set_timeout(t), {"clock", "timers"})
        BY <3>4, SetTimeoutHeld
      <4>2. lk' = set_timeout(t)
        BY <2>3, <2>5, <3>6 DEF t
      <4> QED BY <3>4, <3>5, <4>1, <4>2 DEF SoundAfter, Stated, Clean, Held, Typed, SameBut
    <3>7. CASE ~Adapter
      <4>1. lk' = t
        BY <2>3, <2>5, <3>7 DEF t
      <4> QED BY <3>4, <3>5, <4>1 DEF SoundAfter, Stated, Clean
    <3> QED BY <3>6, <3>7
  <2> QED BY <2>4, <2>5
<1> QED BY <1>1, <1>2

\* The node's answer to a hello reserves at most one address, and only for a
\* link that has none.
LEMMA HelloRequestStep == ASSUME IInv, handle_hello_request PROVE SoundAfter
<1> USE DEF IInv
<1>1. lk.present /\ ~Adapter /\ lk.state = "Helloing"
  BY DEF handle_hello_request
<1>2. lk' = process_hello_request(lk) \/ lk' = initiate_close(lk, "Other")
  BY DEF handle_hello_request, Becomes
<1> DEFINE a == [lk EXCEPT !.aaa = link.pool,
                           !.reserved = IF link.pool THEN @ + 1 ELSE @]
<1>3. CASE lk' = initiate_close(lk, "Other")
  BY <1>1, <1>3, InitiateCloseSound DEF SoundAfter
<1>4. CASE lk' = run_active(a)
  <2>1. link.pool \in BOOLEAN
    BY DEF Links
  <2>2. /\ Held(a)
        /\ a.present /\ a.up /\ a.km /\ a.sa /\ a.drops = 0 /\ a.joins = 0
    BY <1>1, <2>1 DEF Stated, Held, Typed, Clean
  <2> HIDE DEF a
  <2> QED BY <1>1, <1>4, <2>2, RunActiveSound DEF SoundAfter
<1> QED BY <1>2, <1>3, <1>4 DEF process_hello_request

\* The answer makes the adapter's link active with the carrier on and actor
\* authorization told; when it is refused, or the TUN fails, the link closes,
\* still knowing what it put on the TUN.
LEMMA HelloResponseStep == ASSUME IInv, handle_hello_response PROVE SoundAfter
<1> USE DEF IInv
<1>1. lk.present /\ Adapter /\ lk.state = "Helloing"
  BY DEF handle_hello_response
<1>2. PICK r \in HelloResponses, exists \in BOOLEAN, fails \in {"no", "address", "carrier"} :
        \/ lk' = initiate_close(lk, "Other")
        \/ lk' = process_hello_response(lk, r, exists, fails)
  BY DEF handle_hello_response, Becomes
<1> DEFINE a == [lk EXCEPT !.aaa = r.aaa = 1]
           t == IF a.aaa THEN [a EXCEPT !.tun = @ \/ ~exists, !.installed = ~exists] ELSE a
           v == [t EXCEPT !.carrier = TRUE, !.auth = TRUE]
<1>3. \/ lk' = initiate_close(lk, "Other") \/ lk' = initiate_close(a, "Other")
      \/ lk' = initiate_close(t, "Other") \/ lk' = run_active(v)
  BY <1>2 DEF process_hello_response
<1>4. ~link.pool
  BY <1>1 DEF Links, Adapter
<1>5. /\ Held(a) /\ a.present /\ a.up /\ a.km /\ a.sa /\ a.drops = 0 /\ a.joins = 0
      /\ ~a.tun /\ ~a.installed
  BY <1>1, <1>4 DEF Stated, Held, Typed, Clean
<1> HIDE DEF a
<1>6. Held(t) /\ t.present /\ t.up /\ t.km /\ t.sa /\ t.drops = 0 /\ t.joins = 0
  BY <1>4, <1>5 DEF Held, Typed, Clean
<1> HIDE DEF t
<1>7. /\ Held(v) /\ v.present /\ v.up /\ v.km /\ v.sa /\ v.drops = 0 /\ v.joins = 0
      /\ v.carrier /\ v.auth
  BY <1>1, <1>6 DEF Held, Typed, Clean
<1> HIDE DEF v
<1> QED BY <1>1, <1>3, <1>5, <1>6, <1>7, InitiateCloseSound, RunActiveSound DEF SoundAfter

\* A timeout closes the link, sends a keep-alive with a timeout of its own, or
\* cleans up a link whose terminate was not answered.
LEMMA TimeoutStep ==
    ASSUME IInv, NEW c \in lk.timers, process_timeout(c) PROVE SoundAfter
<1> USE DEF IInv
<1> DEFINE s == [lk EXCEPT !.timers = @ \ {c}]
<1>1. lk' = IF heeds(lk, c) THEN timed_out(s) ELSE lk
  BY DEF process_timeout, Becomes
<1>2. CASE ~heeds(lk, c)
  BY <1>1, <1>2 DEF SoundAfter
<1>3. CASE heeds(lk, c)
  <2>1. Held(s) /\ s.present /\ SameBut(lk, s, {"timers"})
    BY <1>3 DEF heeds, Held, Typed, Clean, SameBut
  <2>2. lk' = timed_out(s)
    BY <1>1, <1>3
  <2> DEFINE e == [s EXCEPT !.echo = FALSE, !.echoes = 0]
             k == [s EXCEPT !.echo = TRUE, !.echoes = @ + 1]
  <2> HIDE DEF s
  <2>3. CASE Adapter /\ s.state = "Helloing"
    <3>1. lk' = initiate_close(set_state(s, "Error"), "RequestTimedOut")
      BY <2>2, <2>3 DEF timed_out
    <3>2. /\ Held(set_state(s, "Error"))
          /\ SameBut(s, set_state(s, "Error"), {"clock", "state", "ready"})
      BY <2>1, SetStateHeld DEF States
    <3>3. set_state(s, "Error").present
      BY <2>1, <3>2 DEF SameBut, Held, Typed
    <3> QED BY <3>1, <3>2, <3>3, InitiateCloseSound DEF SoundAfter
  <2>4. CASE s.state = "Active" /\ s.echo
    <3>1. lk' = initiate_close(set_state(e, "Error"), "RequestTimedOut")
      BY <2>2, <2>4 DEF timed_out
    <3>2. Held(e) /\ e.present
      BY <2>1 DEF Held, Typed, Clean
    <3> HIDE DEF e
    <3>3. /\ Held(set_state(e, "Error"))
          /\ SameBut(e, set_state(e, "Error"), {"clock", "state", "ready"})
      BY <3>2, SetStateHeld DEF States
    <3>4. set_state(e, "Error").present
      BY <3>2, <3>3 DEF SameBut, Held, Typed
    <3> QED BY <3>1, <3>3, <3>4, InitiateCloseSound DEF SoundAfter
  <2>5. CASE s.state = "Active" /\ ~s.echo
    <3>1. lk' = set_timeout(k)
      BY <2>2, <2>5 DEF timed_out
    <3>2. Held(k) /\ SameBut(lk, k, {"timers", "echo", "echoes"})
      <4>1. Typed(k) /\ SameBut(s, k, {"echo", "echoes"})
        <5>1. Typed(k)
          BY <2>1 DEF Held, Typed
        <5>2. SameBut(s, k, {"echo", "echoes"})
          BY <2>1 DEF Held, Typed, SameBut
        <5> QED BY <5>1, <5>2
      <4> HIDE DEF k
      <4>2. Held(k)
        BY <2>1, <4>1 DEF Held, Typed, Clean, SameBut
      <4>3. DOMAIN s = DOMAIN lk
        BY <2>1 DEF Held, Typed
      <4> QED BY <2>1, <4>1, <4>2, <4>3 DEF SameBut
    <3> HIDE DEF k
    <3>3. /\ Held(set_timeout(k)) /\ set_timeout(k).clock \in set_timeout(k).timers
          /\ SameBut(k, set_timeout(k), {"clock", "timers"})
      BY <3>2, SetTimeoutHeld
    <3>4. /\ Held(lk') /\ lk'.clock \in lk'.timers
          /\ SameBut(lk, lk', {"clock", "timers", "echo", "echoes"})
      <4>1. DOMAIN k = DOMAIN lk
        BY <3>2 DEF Held, Typed
      <4> QED BY <3>1, <3>2, <3>3, <4>1 DEF SameBut
    <3>5. lk.state = "Active"
      BY <2>1, <2>5 DEF SameBut, Held, Typed
    <3> QED BY <3>4, <3>5 DEF SoundAfter, Stated, SameBut, Held, Typed, Clean
  <2>6. CASE s.state = "Closing"
    <3>1. lk' = clean_up_link_state(s)
      BY <2>2, <2>6 DEF timed_out
    <3>2. ~s.ready
      BY <2>1, <2>6 DEF SameBut, Held, Typed, Stated
    <3> QED BY <2>1, <2>6, <3>1, <3>2, CleanUpSound DEF SoundAfter
  <2>7. CASE ~(Adapter /\ s.state = "Helloing") /\ s.state \notin {"Active", "Closing"}
    <3>1. lk' = s
      BY <2>2, <2>7 DEF timed_out
    <3> QED BY <2>1, <2>7, <3>1 DEF SoundAfter, Stated, SameBut, Held, Typed, Clean
  <2> QED BY <2>3, <2>4, <2>5, <2>6, <2>7
<1> QED BY <1>2, <1>3

\* A keep-alive that is answered is followed by another timeout.
LEMMA KeepAliveStep == ASSUME IInv, process_keep_alive_response PROVE SoundAfter
<1> USE DEF IInv
<1> DEFINE s == [lk EXCEPT !.echoes = @ - 1]  e == [s EXCEPT !.echo = FALSE]
<1>1. lk' = IF lk.state = "Active" /\ lk.echo THEN set_timeout(e) ELSE s
  BY DEF process_keep_alive_response, Becomes
<1>2. Held(s) /\ SameBut(lk, s, {"echoes"})
  BY DEF process_keep_alive_response, Held, Typed, Clean, SameBut
<1> HIDE DEF s
<1>3. CASE lk' = s
  BY <1>2, <1>3 DEF SoundAfter, Stated, SameBut, Held, Typed, Clean
<1>4. CASE lk.state = "Active" /\ lk' = set_timeout(e)
  <2>1. Held(e) /\ SameBut(lk, e, {"echo", "echoes"})
    BY <1>2 DEF Held, Typed, Clean, SameBut
  <2> HIDE DEF e
  <2>2. /\ Held(lk') /\ lk'.clock \in lk'.timers
        /\ SameBut(e, lk', {"clock", "timers"})
    BY <1>4, <2>1, SetTimeoutHeld
  <2>3. SameBut(lk, lk', {"clock", "timers", "echo", "echoes"})
    BY <2>1, <2>2 DEF SameBut, Held, Typed
  <2> QED BY <1>4, <2>2, <2>3 DEF SoundAfter, Stated, SameBut, Held, Typed, Clean
<1> QED BY <1>1, <1>3, <1>4

\* A link is closed, terminated or reset in whatever state it is.
LEMMA EndStep ==
    ASSUME IInv,
           \/ \E reason \in {"Other", "Shutdown"} : Close(reason)
           \/ handle_terminate_link_or_docking_session \/ reset
    PROVE  SoundAfter
<1> USE DEF IInv
<1>1. ASSUME NEW reason, Close(reason) PROVE SoundAfter
  BY <1>1, InitiateCloseSound DEF Close, SoundAfter
<1>2. ASSUME lk.present, NEW state \in {"Closing", "Resetting"},
             lk' = clean_up_link_state(set_state(lk, state))
      PROVE  SoundAfter
  <2>1. /\ Held(set_state(lk, state)) /\ set_state(lk, state).state = state
        /\ ~set_state(lk, state).ready
        /\ SameBut(lk, set_state(lk, state), {"clock", "state", "ready"})
    <3>1. Held(lk) /\ state \in States
      BY DEF States
    <3>2. /\ Held(set_state(lk, state)) /\ set_state(lk, state).state = state
          /\ set_state(lk, state).ready <=> lk.up /\ state = "Active"
          /\ SameBut(lk, set_state(lk, state), {"clock", "state", "ready"})
      BY <3>1, SetStateHeld, Zenon
    <3> QED BY <3>2
  <2>2. set_state(lk, state).present
    BY <1>2, <2>1 DEF SameBut, Held, Typed
  <2> QED BY <1>2, <2>1, <2>2, CleanUpSound DEF SoundAfter
<1> QED
  BY <1>1, <1>2 DEF handle_terminate_link_or_docking_session, process_terminate_link, reset

\* The acknowledgements a closing link waits for; those of an earlier close
\* only count down.
LEMMA AckStep ==
    ASSUME IInv, process_terminate_ack \/ process_disconnect_ack PROVE SoundAfter
<1> USE DEF IInv
<1>1. CASE process_terminate_ack
  <2> DEFINE s == [lk EXCEPT !.terms = @ - 1]  u == [s EXCEPT !.clock = @ + 1]
  <2>1. lk' = IF lk.state = "Closing" THEN clean_up_link_state(u) ELSE s
    BY <1>1 DEF process_terminate_ack, Becomes, cancel_timeout
  <2>2. Held(s) /\ SameBut(lk, s, {"terms"}) /\ lk.present
    BY <1>1 DEF process_terminate_ack, Held, Typed, Clean, SameBut
  <2> HIDE DEF s
  <2>3. CASE lk' = s
    BY <2>2, <2>3 DEF SoundAfter, Stated, SameBut, Held, Typed, Clean
  <2>4. CASE lk.state = "Closing" /\ lk' = clean_up_link_state(u)
    <3>1. Held(u) /\ u.present /\ u.state = "Closing" /\ ~u.ready
      BY <2>2, <2>4 DEF Held, Typed, Clean, SameBut, Stated
    <3> QED BY <2>4, <3>1, CleanUpSound DEF SoundAfter
  <2> QED BY <2>1, <2>3, <2>4
<1>2. CASE process_disconnect_ack
  <2> DEFINE s == [lk EXCEPT !.stops = @ - 1]
  <2>1. lk' = IF lk.present /\ lk.state = "Disconnecting" THEN continue_close(s) ELSE s
    BY <1>2 DEF process_disconnect_ack, Becomes
  <2>2. Held(s) /\ SameBut(lk, s, {"stops"})
    BY <1>2 DEF process_disconnect_ack, Held, Typed, Clean, SameBut
  <2> HIDE DEF s
  <2>3. CASE lk' = s
    BY <2>2, <2>3 DEF SoundAfter, Stated, SameBut, Held, Typed, Clean
  <2>4. CASE lk.present /\ lk' = continue_close(s)
    <3>1. s.present
      BY <2>2, <2>4 DEF Held, Typed, SameBut
    <3> QED BY <2>2, <2>4, <3>1, ContinueCloseSound DEF SoundAfter
  <2> QED BY <2>1, <2>3, <2>4
<1> QED BY <1>1, <1>2

\* drop_link and the end of the key manager remove the link, or make it
\* inactive, only once all is given up.
LEMMA DropStep == ASSUME IInv, drop_link \/ KmJoined PROVE SoundAfter
<1> USE DEF IInv
<1>1. CASE drop_link
  <2> DEFINE s == [lk EXCEPT !.drops = @ - 1, !.sa = FALSE, !.km = FALSE]
             j == [s EXCEPT !.joins = @ + 1]
  <2>1. lk' = IF lk.km THEN j ELSE IF lk.present THEN complete_close(s) ELSE s
    BY <1>1 DEF drop_link, Becomes
  <2>2. lk.drops > 0 /\ Clean(lk) /\ lk.state \notin {"Keying", "Helloing", "Active"}
    BY <1>1 DEF drop_link, Held, Typed, Stated
  <2>3. /\ Held(s) /\ SameBut(lk, s, {"drops", "sa", "km"}) /\ Clean(s) /\ ~s.km
        /\ s.state \notin {"Keying", "Helloing", "Active"}
    <3>1. Typed(s) /\ SameBut(lk, s, {"drops", "sa", "km"}) /\ ~s.km
      <4>1. Typed(s) /\ ~s.km
        BY <2>2 DEF Held, Typed
      <4>2. SameBut(lk, s, {"drops", "sa", "km"})
        BY DEF Held, Typed, SameBut
      <4> QED BY <4>1, <4>2
    <3>2. DOMAIN s = DOMAIN lk
      BY DEF Held, Typed
    <3> HIDE DEF s
    <3> QED BY <2>2, <3>1, <3>2 DEF Held, Typed, Clean, SameBut
  <2> HIDE DEF s
  <2>4. Stated(s)
    BY <2>3 DEF Stated, Held, Typed, Clean, SameBut
  <2>5. CASE lk' = j
    BY <2>3, <2>4, <2>5 DEF SoundAfter, Stated, Held, Typed, Clean
  <2>6. CASE lk.present /\ lk' = complete_close(s)
    <3>1. s.present
      BY <2>3, <2>6 DEF Held, Typed, SameBut
    <3> QED BY <2>3, <2>4, <2>6, <3>1, CompleteCloseSound DEF SoundAfter
  <2>7. CASE lk' = s
    BY <2>3, <2>4, <2>7 DEF SoundAfter
  <2> QED BY <2>1, <2>5, <2>6, <2>7
<1>2. CASE KmJoined
  <2> DEFINE s == [lk EXCEPT !.joins = @ - 1]
  <2>1. lk' = IF lk.present THEN complete_close(s) ELSE s
    BY <1>2 DEF KmJoined, Becomes
  <2>2. /\ lk.joins > 0 /\ Clean(lk) /\ ~lk.km
        /\ lk.state \notin {"Keying", "Helloing", "Active"}
    BY <1>2 DEF KmJoined, Held, Typed, Stated
  <2>3. /\ Held(s) /\ SameBut(lk, s, {"joins"}) /\ Clean(s) /\ ~s.km
        /\ s.state \notin {"Keying", "Helloing", "Active"}
    <3>1. Typed(s) /\ SameBut(lk, s, {"joins"})
      BY <2>2 DEF Held, Typed, SameBut
    <3>2. s.drops = lk.drops /\ s.joins = lk.joins - 1 /\ DOMAIN s = DOMAIN lk
      BY DEF Held, Typed
    <3> HIDE DEF s
    <3> QED BY <2>2, <3>1, <3>2 DEF Held, Typed, Clean, SameBut
  <2> HIDE DEF s
  <2>4. Stated(s)
    BY <2>3 DEF Stated, Held, Typed, Clean, SameBut
  <2>5. CASE lk.present /\ lk' = complete_close(s)
    <3>1. s.present
      BY <2>3, <2>5 DEF Held, Typed, SameBut
    <3> QED BY <2>3, <2>4, <2>5, <3>1, CompleteCloseSound DEF SoundAfter
  <2>6. CASE lk' = s
    BY <2>3, <2>4, <2>6 DEF SoundAfter
  <2> QED BY <2>1, <2>5, <2>6
<1> QED BY <1>1, <1>2

-----------------------------------------------------------------------------
(* The theorems.                                                           *)

\* The inductive invariant is kept by every handler and every task.
LEMMA StepIInv == IInv /\ [Next]_vars => IInv'
<1> SUFFICES ASSUME IInv, [Next]_vars PROVE IInv'
  OBVIOUS
<1>1. link' = link /\ events' \in 0..MaxEvents
  <2>1. link' = link /\ (events' = events \/ Counted)
    BY Zenon
       DEF Next, vars, process_start, StartIgnored, SaEstablished, process_keying_done,
           handle_hello_request, handle_hello_response, process_timeout,
           process_keep_alive_response, Close, reset,
           handle_terminate_link_or_docking_session, process_terminate_ack,
           process_disconnect_ack, drop_link, KmJoined, Becomes
  <2> QED BY <2>1, LinkStateAssumption DEF IInv, Counted
<1>2. SoundAfter
  <2>1. CASE UNCHANGED vars
    BY <2>1 DEF IInv, SoundAfter, vars
  <2> QED
    BY <2>1, StartStep, KeyingStep, HelloRequestStep, HelloResponseStep, TimeoutStep,
       KeepAliveStep, EndStep, AckStep, DropStep DEF Next
<1> QED
  BY <1>1, <1>2 DEF IInv, SoundAfter, Held, Stated, Typed, Clean, Adapter

\* The inductive invariant holds of every reachable state.
THEOREM LinkInvariance == Spec => []IInv
<1>1. Init => IInv
  BY InitIInv
<1>2. IInv /\ [Next]_vars => IInv'
  BY StepIInv
<1> QED
  BY <1>1, <1>2, PTL DEF Spec

\* The link has its type, its clock never falls behind a timer, and a node
\* reserves at most one AAA address for it.
THEOREM LinkTypeCorrect == Spec => []TypeOK
<1>1. IInv => TypeOK
  BY DEF IInv, Held, Typed, TypeOK, new_link
<1> QED
  BY <1>1, LinkInvariance, PTL

\* A link that is ready for traffic has its keys and is watched by a timeout
\* that will be heeded, whatever closes, resets, restarts and late
\* acknowledgements came before; and actor authorization believes in the link
\* only while it is ready.
THEOREM LinkReadyIsSound == Spec => []ReadyIsSound
<1>1. IInv => ReadyIsSound
  BY DEF IInv, Held, Typed, Stated, ReadyIsSound
<1> QED
  BY <1>1, LinkInvariance, PTL

\* However many closes, resets and terminates overlap, a link that is removed
\* or waits to be restarted holds nothing.
THEOREM LinkNothingHeldWhenDown == Spec => []NothingHeldWhenDown
<1>1. IInv => NothingHeldWhenDown
  BY DEF IInv, Held, Typed, Stated, Clean, NothingHeldWhenDown
<1> QED
  BY <1>1, LinkInvariance, PTL

=============================================================================
