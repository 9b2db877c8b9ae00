---------------------------- MODULE ExpiringMap ----------------------------
(***************************************************************************)
(* What the cache promises its callers: a map whose entries may carry a    *)
(* deadline, on which every command takes effect in one step between its   *)
(* call and its return.                                                    *)
(*                                                                         *)
(* A command judges deadlines by a clock value of its own interval, not    *)
(* always by the latest.  An entry past its deadline is invisible, and may *)
(* vanish at any time.  TTL alone is not one step: it takes the deadline   *)
(* first and settles its answer, and evicts the key, later.                *)
(***************************************************************************)
EXTENDS Integers

CONSTANTS Keys, Values, Deadlines, Threads, Offered, None, MsPerSecond, MaxTime

VARIABLES
  now,      \* the clock
  map,      \* Keys -> [value, expires_at] or None
  call,     \* the command each caller waits for, or None
  started,  \* the clock at the call, for the commands that may judge by it
  result    \* <<>> until the command has taken effect

mapVars == <<now, map, call, started, result>>

Visible(e, t) == e # None /\ (e.expires_at = None \/ t < e.expires_at)

\* The entry is left alone, or an invisible one is cleared away.
Left(e, t) == IF Visible(e, t) THEN {e} ELSE {e, None}

WithDeadline(e, d) == [value |-> e.value, expires_at |-> d]

\* What command c may make of entry e, judging by clock value t: the entries
\* it may leave and the result it gives.
Effects(c, e, t) ==
  CASE c.kind = "Get" ->
         Left(e, t) \X {<<"Value", IF Visible(e, t) THEN e.value ELSE None>>}
    [] c.kind = "Exists" ->
         Left(e, t) \X {<<"Integer", IF Visible(e, t) THEN 1 ELSE 0>>}
    [] c.kind = "Set" ->
         {<<[value |-> c.value, expires_at |-> c.expires_at], <<"Ok">>>>}
    [] c.kind = "Delete" -> {<<None, <<"Bool", e # None>>>>}
    [] c.kind = "ExpireAt" ->
         {<<IF e # None /\ t < c.expires_at THEN WithDeadline(e, c.expires_at) ELSE None,
            <<"Bool", e # None>>>>}
    [] c.kind = "Persist" ->
         IF Visible(e, t)
         THEN {<<WithDeadline(e, None), <<"Bool", e.expires_at # None>>>>}
         ELSE {<<None, <<"Bool", FALSE>>>>}
    [] c.kind = "Ttl" ->
         {<<e, IF e = None THEN <<"KeyNotFound">>
               ELSE IF e.expires_at = None THEN <<"TtlNotFound">>
               ELSE <<"Deadline", e.expires_at>>>>}

Init ==
  /\ now = 0
  /\ map = [k \in Keys |-> None]
  /\ call = [t \in Threads |-> None]
  /\ started = [t \in Threads |-> None]
  /\ result = [t \in Threads |-> <<>>]

Tick == now' = now + 1 /\ UNCHANGED <<map, call, started, result>>

Invoke(t, c) ==
  /\ call[t] = None
  /\ call' = [call EXCEPT ![t] = c]
  /\ started' = [started EXCEPT ![t] = IF c.kind \in {"Get", "ExpireAt"} THEN now ELSE None]
  /\ UNCHANGED <<now, map, result>>

\* The clock values command t may judge by.
Judged(t) == IF started[t] = None THEN {now} ELSE started[t]..now

TakeEffect(t) ==
  /\ call[t] # None /\ result[t] = <<>>
  /\ \E clock \in Judged(t) : \E x \in Effects(call[t], map[call[t].key], clock) :
       /\ map' = [map EXCEPT ![call[t].key] = x[1]]
       /\ result' = [result EXCEPT ![t] = x[2]]
  /\ UNCHANGED <<now, call, started>>

HoldsDeadline(t) == result[t] # <<>> /\ result[t][1] = "Deadline"

\* The whole seconds that cover the time left until d, none once d has passed.
SecondsLeft(d) == IF d > now THEN (d - now + MsPerSecond - 1) \div MsPerSecond ELSE 0

Settle(t) ==
  /\ HoldsDeadline(t)
  /\ result' = [result EXCEPT ![t] = <<"Ttl", SecondsLeft(result[t][2])>>]
  /\ UNCHANGED <<now, map, call, started>>

\* TTL finds its deadline passed and removes the key, whatever it holds by then.
Evict(t) ==
  /\ HoldsDeadline(t)
  /\ now >= result[t][2]
  /\ map' = [map EXCEPT ![call[t].key] = None]
  /\ result' = [result EXCEPT ![t] = <<"KeyNotFound">>]
  /\ UNCHANGED <<now, call, started>>

Respond(t) ==
  /\ result[t] # <<>> /\ ~HoldsDeadline(t)
  /\ call' = [call EXCEPT ![t] = None]
  /\ started' = [started EXCEPT ![t] = None]
  /\ result' = [result EXCEPT ![t] = <<>>]
  /\ UNCHANGED <<now, map>>

\* Entries past their deadline may go at any time.
Reclaim ==
  /\ map' \in [Keys -> {map[k] : k \in Keys} \cup {None}]
  /\ \A k \in Keys : map'[k] \in Left(map[k], now)
  /\ UNCHANGED <<now, call, started, result>>

Next ==
  \/ Tick
  \/ Reclaim
  \/ \E t \in Threads :
       \/ \E c \in Offered : Invoke(t, c)
       \/ TakeEffect(t) \/ Settle(t) \/ Evict(t) \/ Respond(t)

Spec == Init /\ [][Next]_mapVars
=============================================================================
