--------------------------- MODULE ClassifyProofs ---------------------------
(***************************************************************************)
(* Proofs about Classify, for every choice of its constants: any number of *)
(* providers, workers and threads that ask available(), any length of      *)
(* pauses, any sequence of answers, refusals, saves and probes.            *)
(***************************************************************************)
EXTENDS Classify, TLAPS

-----------------------------------------------------------------------------
(***************************************************************************)
(* The inductive invariant.                                                *)
(***************************************************************************)
OnHost(t) == call[t].at \in {"slot", "post"}

\* A call has a host object while it waits for its slot or chats, and the object
\* belongs to a table that has been in place; a save that has begun is within
\* the bound.
Shaped ==
    /\ \A t \in Threads : OnHost(t) <=> call[t].prov # None
    /\ \A t \in Threads : call[t].gen <= gen
    /\ \A b \in Probers : probe[b].prov = None => probe[b] = NoProbe
    /\ saved => gen < MaxSaves

\* The slot of a host lets one chat through.
SlotTaken == \A t \in Threads : call[t].at = "post" => host[call[t].prov][call[t].gen].slot = 0
Alone ==
    \A t, u \in Threads :
        /\ call[t].at = "post" /\ call[u].at = "post"
        /\ call[t].prov = call[u].prov /\ call[t].gen = call[u].gen
        => t = u

\* Nobody has paused a host of a table that is yet to come.
Fresh == \A p \in Providers, g \in Gens : g > gen => ~is_paused(host[p][g])

\* What a call has to ask before it may say None: a provider that is in use and
\* not paused, and not asked yet unless the call is about to.  The object the
\* call has in its hands is not paused either, if a save has replaced it.
MustReady ==
    \A t \in Threads : \A p \in call[t].must :
        /\ p \in cache
        /\ ~is_paused(host[p][gen])
        /\ p \in call[t].tried => OnHost(t) /\ call[t].prov = p
        /\ call[t].prov = p => ~is_paused(host[p][call[t].gen])

IInv ==
    /\ TypeOK /\ Shaped /\ SlotTaken /\ Alone /\ CoolingDown
    /\ Fresh /\ MustReady /\ NoneMeansNobody

-----------------------------------------------------------------------------
(***************************************************************************)
(* Facts about the operators.                                              *)
(***************************************************************************)
\* _Host: an edit of one field gives a host, and leaves the others as they are.
LEMMA HostEdits ==
    ASSUME NEW h \in Host
    PROVE  /\ \A s \in 0 .. 1 : /\ [h EXCEPT !.slot = s] \in Host
                                /\ [h EXCEPT !.slot = s].slot = s
                                /\ [h EXCEPT !.slot = s].left = h.left
           /\ \A b \in BOOLEAN : /\ [h EXCEPT !.probing = b] \in Host
                                 /\ [h EXCEPT !.probing = b].slot = h.slot
                                 /\ [h EXCEPT !.probing = b].left = h.left
           /\ \A up \in BOOLEAN : /\ Probed(h, up) \in Host
                                  /\ Probed(h, up).slot = h.slot
                                  /\ Probed(h, up).left = h.left
BY DEF Host, Probed

LEMMA NewHostType == NewHost \in Host /\ NewHost.slot = 1 /\ NewHost.left = 0
BY ClassifyAssumption DEF Host, NewHost

\* Time ends pauses and starts none.
LEMMA OlderType ==
    ASSUME NEW h \in Host
    PROVE  /\ Older(h) \in Host /\ Older(h).slot = h.slot
           /\ is_paused(Older(h)) => is_paused(h)
<1> DEFINE n == Larger(h.left - 1, 0)
           s == Smaller(h.since + 1, Window + 1)
<1>1. Older(h) = [h EXCEPT !.left = n, !.since = s]
  BY DEF Older
<1>2. h.left \in 0 .. Cap /\ h.since \in 0 .. Window + 1
  BY DEF Host
<1>3. n \in 0 .. Cap /\ s \in 0 .. Window + 1 /\ (n > 0 => h.left > 0)
  BY <1>2, ClassifyAssumption DEF Larger, Smaller
<1> HIDE DEF n, s
<1>4. /\ [h EXCEPT !.left = n, !.since = s] \in Host
      /\ [h EXCEPT !.left = n, !.since = s].slot = h.slot
      /\ [h EXCEPT !.left = n, !.since = s].left = n
  BY <1>3 DEF Host
<1> QED BY <1>1, <1>3, <1>4 DEF is_paused

\* A refusal may pause the host, and leaves its slot taken.
LEMMA RefusalsType ==
    ASSUME NEW h \in Host, NEW r \in Refusals(h)
    PROVE  r \in Host /\ r.slot = h.slot
<1>1. ASSUME NEW n \in 0 .. Cap
      PROVE  pause(h, n) \in Host /\ pause(h, n).slot = h.slot
  <2> DEFINE m == Larger(n, h.left)
  <2>1. pause(h, n) = [h EXCEPT !.left = m, !.ok = FALSE]
    BY DEF pause
  <2>2. m \in 0 .. Cap /\ FALSE \in BOOLEAN
    BY DEF Larger, Host
  <2> HIDE DEF m
  <2>3. /\ [h EXCEPT !.left = m, !.ok = FALSE] \in Host
        /\ [h EXCEPT !.left = m, !.ok = FALSE].slot = h.slot
    BY <2>2 DEF Host
  <2> QED BY <2>1, <2>3
<1>2. KeyPause \in 0 .. Cap /\ Cap \in 0 .. Cap /\ 0 \in 0 .. Cap
  BY ClassifyAssumption
<1>3. ASSUME NEW n \in 0 .. Cap
      PROVE  on_rate_limit(h, n) \in Host /\ on_rate_limit(h, n).slot = h.slot
  <2> DEFINE b == IF h.since > Window THEN 1 ELSE h.backoff
             m == Smaller(Larger(n, b), Cap)
             q == pause(h, m)
             d == Smaller(2 * b, Cap)
  <2>1. b \in 1 .. Cap /\ m \in 0 .. Cap
    BY ClassifyAssumption DEF Host, Larger, Smaller
  <2>2. d \in 1 .. Cap
    BY ClassifyAssumption, <2>1 DEF Smaller
  <2>3. q \in Host /\ q.slot = h.slot
    BY <1>1, <2>1
  <2>4. 0 \in 0 .. Window + 1
    BY ClassifyAssumption
  <2>5. on_rate_limit(h, n) = [q EXCEPT !.backoff = d, !.since = 0]
    BY DEF on_rate_limit
  <2> HIDE DEF q, d
  <2>6. /\ [q EXCEPT !.backoff = d, !.since = 0] \in Host
        /\ [q EXCEPT !.backoff = d, !.since = 0].slot = h.slot
    BY <2>2, <2>3, <2>4 DEF Host
  <2> QED BY <2>5, <2>6
<1> QED BY <1>1, <1>2, <1>3 DEF Refusals

\* The fields of a call that the proofs are about.
Is(c, at, prov, g, tried, must) ==
    /\ c \in Call
    /\ c.at = at /\ c.prov = prov /\ c.gen = g /\ c.tried = tried /\ c.must = must

LEMMA NoCallType == NoCall \in Call /\ Is(NoCall, "idle", None, 0, {}, {})
BY ClassifyAssumption DEF Call, NoCall, Gens, Is

\* A call whose at, must or attempt is set.
LEMMA CallEdits ==
    ASSUME NEW c \in Call
    PROVE  /\ \A a \in {"post", "none"} : Is([c EXCEPT !.at = a], a, c.prov, c.gen, c.tried, c.must)
           /\ \A S \in SUBSET Providers : Is([c EXCEPT !.must = S], c.at, c.prov, c.gen, c.tried, S)
           /\ \A n \in 0 .. Attempts - 1 :
                Is([c EXCEPT !.attempt = n], c.at, c.prov, c.gen, c.tried, c.must)
BY DEF Call, Is

\* A call that takes a provider, and one that finds it paused.
LEMMA CallMoves ==
    ASSUME NEW c \in Call
    PROVE  /\ Is([c EXCEPT !.at = "choose", !.prov = None, !.gen = 0],
                 "choose", None, 0, c.tried, c.must)
           /\ \A p \in Providers, g \in Gens :
                Is([c EXCEPT !.at = "slot", !.prov = p, !.gen = g, !.tried = @ \cup {p}],
                   "slot", p, g, c.tried \cup {p}, c.must)
<1>1. 0 \in Gens
  BY ClassifyAssumption DEF Gens
<1>2. Is([c EXCEPT !.at = "choose", !.prov = None, !.gen = 0], "choose", None, 0, c.tried, c.must)
  BY <1>1 DEF Call, Is
<1>3. ASSUME NEW p \in Providers, NEW g \in Gens
      PROVE  Is([c EXCEPT !.at = "slot", !.prov = p, !.gen = g, !.tried = @ \cup {p}],
                "slot", p, g, c.tried \cup {p}, c.must)
  <2> DEFINE T == c.tried \cup {p}
  <2>1. [c EXCEPT !.at = "slot", !.prov = p, !.gen = g, !.tried = @ \cup {p}] =
            [c EXCEPT !.at = "slot", !.prov = p, !.gen = g, !.tried = T]
    OBVIOUS
  <2>2. T \in SUBSET Providers
    BY DEF Call
  <2> HIDE DEF T
  <2>3. Is([c EXCEPT !.at = "slot", !.prov = p, !.gen = g, !.tried = T], "slot", p, g, T, c.must)
    BY <2>2 DEF Call, Is
  <2> QED BY <2>1, <2>3 DEF T
<1> QED BY <1>2, <1>3

\* A call that starts, or goes on with nothing but what it has tried.
LEMMA FreshCalls ==
    ASSUME NEW T \in SUBSET Providers, NEW S \in SUBSET Providers
    PROVE  /\ Is([NoCall EXCEPT !.at = "choose", !.must = S], "choose", None, 0, {}, S)
           /\ Is([NoCall EXCEPT !.at = "none", !.must = S], "none", None, 0, {}, S)
           /\ Is([NoCall EXCEPT !.at = "choose", !.tried = T, !.must = S], "choose", None, 0, T, S)
BY NoCallType DEF Call, Is

\* A worker starts with nothing.
LEMMA IInvInit == Init => IInv
<1> SUFFICES ASSUME Init PROVE IInv
  OBVIOUS
<1>1. /\ \A p \in Providers, g \in Gens : host[p][g] = NewHost
      /\ \A t \in Threads : call[t] = NoCall
      /\ \A b \in Probers : probe[b] = NoProbe
      /\ host \in [Providers -> [Gens -> Host]] /\ call \in [Threads -> Call]
  BY NewHostType, NoCallType DEF Init
<1>2. NoProbe \in Probe /\ gen = 0 /\ gen \in Gens /\ ~saved /\ cache \subseteq Providers
  BY ClassifyAssumption DEF Init, NoProbe, Probe, Gens
<1>3. TypeOK
  <2>1. probe \in [Probers -> Probe]
    BY <1>2 DEF Init
  <2>2. calls \in 0 .. MaxCalls /\ events \in 0 .. MaxEvents
    BY ClassifyAssumption DEF Init
  <2>3. saved \in BOOLEAN
    BY DEF Init
  <2> QED BY <1>1, <1>2, <2>1, <2>2, <2>3 DEF TypeOK
<1>4. \A p \in Providers, g \in Gens : ~is_paused(host[p][g])
  BY <1>1, NewHostType DEF is_paused
<1>5. \A t \in Threads : Is(call[t], "idle", None, 0, {}, {})
  BY <1>1, NoCallType
<1> QED BY <1>1, <1>2, <1>3, <1>4, <1>5 DEF IInv, Shaped, OnHost, SlotTaken, Alone, CoolingDown,
           Fresh, MustReady, NoneMeansNobody, Is

-----------------------------------------------------------------------------
(***************************************************************************)
(* What a step may do.                                                     *)
(***************************************************************************)
\* A call has to ask the providers S: what MustReady says of it.
Owes(c, S) ==
    \A p \in S :
        /\ p \in cache
        /\ ~is_paused(host[p][gen])
        /\ p \in c.tried => c.at \in {"slot", "post"} /\ c.prov = p
        /\ c.prov = p => ~is_paused(host[p][c.gen])

\* One call moves without a chat, and no host changes.
LEMMA CallMoved ==
    ASSUME IInv, NEW t \in Threads, NEW c \in Call,
           call' = [call EXCEPT ![t] = c], UNCHANGED <<settings, host, probe>>,
           calls' \in 0 .. MaxCalls, events' \in 0 .. MaxEvents,
           c.at \in {"slot", "post"} <=> c.prov # None, c.gen <= gen,
           c.at = "post" => call[t].at = "post" /\ c.prov = call[t].prov /\ c.gen = call[t].gen,
           Owes(c, c.must), c.at = "none" => c.must = {}
    PROVE  IInv'
<1>1. /\ call' \in [Threads -> Call]
      /\ call'[t] = c /\ \A u \in Threads \ {t} : call'[u] = call[u]
      /\ cache' = cache /\ saved' = saved /\ gen' = gen /\ host' = host /\ probe' = probe
  BY DEF IInv, TypeOK, settings
<1>2. TypeOK'
  BY <1>1 DEF IInv, TypeOK
<1>3. Shaped'
  BY <1>1 DEF IInv, Shaped, OnHost
<1>4. SlotTaken' /\ Alone'
  BY <1>1 DEF IInv, SlotTaken, Alone
<1>5. CoolingDown' /\ Fresh'
  BY <1>1 DEF IInv, CoolingDown, Fresh, Chatting
<1>6. MustReady' /\ NoneMeansNobody'
  BY <1>1 DEF IInv, MustReady, NoneMeansNobody, Owes, OnHost
<1> QED BY <1>2, <1>3, <1>4, <1>5, <1>6 DEF IInv

\* Hosts change, but neither their slots nor for the worse, and no call moves.
LEMMA HostsQuiet ==
    ASSUME IInv, host' \in [Providers -> [Gens -> Host]],
           \A p \in Providers, g \in Gens :
              /\ host'[p][g].slot = host[p][g].slot
              /\ is_paused(host'[p][g]) => is_paused(host[p][g]),
           UNCHANGED <<settings, call>>,
           probe' \in [Probers -> Probe],
           \A b \in Probers : probe'[b].prov = None => probe'[b] = NoProbe,
           calls' \in 0 .. MaxCalls, events' \in 0 .. MaxEvents
    PROVE  IInv'
<1>1. cache' = cache /\ saved' = saved /\ gen' = gen /\ call' = call
  BY DEF settings
<1>2. TypeOK'
  BY <1>1 DEF IInv, TypeOK
<1>3. \A t \in Threads : call[t] \in Call /\ (OnHost(t) => call[t].prov \in Providers /\ call[t].gen \in Gens)
  BY DEF IInv, TypeOK, Call, Shaped
<1>4. Shaped' /\ Alone' /\ NoneMeansNobody'
  BY <1>1 DEF IInv, Shaped, OnHost, Alone, NoneMeansNobody
<1>5. SlotTaken'
  BY <1>1, <1>3 DEF IInv, SlotTaken, OnHost
<1>6. CoolingDown' /\ Fresh'
  BY <1>1 DEF IInv, CoolingDown, Fresh, Chatting
<1>7. MustReady'
  <2> SUFFICES ASSUME NEW t \in Threads, NEW p \in call[t].must
               PROVE  /\ p \in cache /\ ~is_paused(host'[p][gen])
                      /\ p \in call[t].tried => OnHost(t) /\ call[t].prov = p
                      /\ call[t].prov = p => ~is_paused(host'[p][call[t].gen])
    BY <1>1 DEF MustReady, OnHost
  <2>1. p \in Providers /\ gen \in Gens /\ call[t].gen \in Gens
    BY <1>3 DEF IInv, TypeOK, Call
  <2> QED BY <2>1 DEF IInv, MustReady
<1> QED BY <1>2, <1>4, <1>5, <1>6, <1>7 DEF IInv

\* A chat ends, its host is now h, and if that is paused nobody has to ask it.
LEMMA ChatOver ==
    ASSUME IInv, NEW t \in Threads, call[t].at = "post", NEW h \in Host, h.slot = 0,
           Leave(t, h), UNCHANGED <<settings, probe>>,
           calls' \in 0 .. MaxCalls, events' \in 0 .. MaxEvents,
           call' \in [Threads -> Call],
           call'[t].at \in {"idle", "choose"}, call'[t].prov = None, call'[t].gen = 0,
           call'[t].tried = call[t].tried \/ call'[t].must = {},
           call'[t].must \subseteq call[t].must \ {call[t].prov},
           \A u \in Threads \ {t} :
              /\ Is(call'[u], call[u].at, call[u].prov, call[u].gen, call[u].tried, call'[u].must)
              /\ call'[u].must \subseteq call[u].must
              /\ is_paused(h) => call[t].prov \notin call'[u].must
    PROVE  IInv'
<1> DEFINE q == call[t].prov
           k == call[t].gen
<1>1. /\ q \in Providers /\ k \in Gens /\ gen \in Gens /\ k <= gen
      /\ \A u \in Threads : call[u] \in Call /\ call[u].gen \in Gens /\ call[u].must \subseteq Providers
  BY DEF IInv, TypeOK, Call, Shaped, OnHost
<1>2. cache' = cache /\ saved' = saved /\ gen' = gen /\ probe' = probe
  BY DEF settings
<1>3. [h EXCEPT !.slot = @ + 1] \in Host /\ [h EXCEPT !.slot = @ + 1].left = h.left
  <2>1. [h EXCEPT !.slot = @ + 1] = [h EXCEPT !.slot = h.slot + 1]
    OBVIOUS
  <2>2. h.slot + 1 \in 0 .. 1
    OBVIOUS
  <2> QED BY <2>1, <2>2, HostEdits
<1>4. PICK n \in Host : /\ host' = [host EXCEPT ![q][k] = n]
                        /\ is_paused(n) => is_paused(h)
  <2> DEFINE left == [h EXCEPT !.slot = @ + 1]
             n0 == IF k < gen /\ ~Shared(t) THEN NewHost ELSE left
  <2>1. host' = [host EXCEPT ![q][k] = n0]
    BY DEF Leave
  <2>2. n0 \in Host /\ n0 \in {NewHost, left}
    BY <1>3, NewHostType
  <2>3. is_paused(n0) => is_paused(h)
    <3>1. ~is_paused(NewHost) /\ (is_paused(left) => is_paused(h))
      BY <1>3, NewHostType DEF is_paused
    <3> HIDE DEF left
    <3> QED BY <2>2, <3>1
  <2> QED BY <2>1, <2>2, <2>3
<1>5. /\ host' \in [Providers -> [Gens -> Host]]
      /\ host'[q][k] = n
      /\ \A p \in Providers, g \in Gens : p # q \/ g # k => host'[p][g] = host[p][g]
  BY <1>1, <1>4 DEF IInv, TypeOK
<1>6. TypeOK'
  BY <1>2, <1>5 DEF IInv, TypeOK
<1>7. Shaped'
  <2>1. \A u \in Threads : /\ call'[u].at \in {"slot", "post"} <=> call'[u].prov # None
                           /\ call'[u].gen <= gen
    <3> TAKE u \in Threads
    <3>1. CASE u = t
      BY <1>1, <3>1 DEF OnHost, Gens
    <3>2. CASE u # t
      BY <3>2 DEF IInv, Shaped, OnHost, Is
    <3> QED BY <3>1, <3>2
  <2>2. /\ \A b \in Probers : probe'[b].prov = None => probe'[b] = NoProbe
        /\ saved' => gen' < MaxSaves
    BY <1>2 DEF IInv, Shaped
  <2>3. \A u \in Threads : OnHost(u)' <=> call'[u].prov # None
    BY <2>1 DEF OnHost
  <2>4. \A u \in Threads : call'[u].gen <= gen'
    BY <1>2, <2>1
  <2> QED BY <2>2, <2>3, <2>4 DEF Shaped
<1>8. \A u \in Threads : call'[u].at = "post" =>
         /\ u # t /\ call[u].at = "post" /\ call'[u].prov = call[u].prov /\ call'[u].gen = call[u].gen
         /\ call[u].prov # q \/ call[u].gen # k
  BY DEF IInv, Alone, Is
<1>9. SlotTaken'
  BY <1>1, <1>5, <1>8 DEF IInv, SlotTaken, TypeOK, Call, Shaped, OnHost
<1>10. Alone'
  BY <1>8 DEF IInv, Alone
<1>11. CoolingDown'
  <2> SUFFICES ASSUME NEW p \in Providers, NEW g \in Gens, is_paused(host'[p][g]),
                      NEW u \in Threads, call'[u].at = "post", call'[u].prov = p, call'[u].gen = g
               PROVE  FALSE
    BY DEF CoolingDown, Chatting
  <2>1. host'[p][g] = host[p][g] /\ u \in Chatting(p, g)
    BY <1>5, <1>8 DEF Chatting
  <2> QED BY <2>1 DEF IInv, CoolingDown
<1>12. Fresh'
  BY <1>1, <1>2, <1>5 DEF IInv, Fresh, Gens
<1>13. NoneMeansNobody'
  BY DEF IInv, NoneMeansNobody, Is
<1>14. MustReady'
  <2> SUFFICES ASSUME NEW u \in Threads, NEW p \in call'[u].must
               PROVE  /\ p \in cache /\ ~is_paused(host'[p][gen])
                      /\ p \in call'[u].tried => call'[u].at \in {"slot", "post"} /\ call'[u].prov = p
                      /\ call'[u].prov = p => ~is_paused(host'[p][call'[u].gen])
    BY <1>2 DEF MustReady, OnHost
  <2>1. p \in call[u].must /\ p \in Providers
    BY <1>1
  <2>2. /\ p \in cache /\ ~is_paused(host[p][gen])
        /\ p \in call[u].tried => OnHost(u) /\ call[u].prov = p
        /\ call[u].prov = p => ~is_paused(host[p][call[u].gen])
    BY <2>1 DEF IInv, MustReady
  <2>3. CASE u = t
    BY <1>1, <1>5, <2>1, <2>2, <2>3, ClassifyAssumption
  <2>4. CASE u # t
    <3>1. p = q => ~is_paused(n)
      BY <1>4, <2>4
    <3>2. \A g \in Gens : ~is_paused(host[p][g]) => ~is_paused(host'[p][g])
      BY <1>5, <2>1, <3>1
    <3> QED BY <1>1, <2>2, <2>4, <3>2 DEF Is, OnHost
  <2> QED BY <2>3, <2>4
<1> QED BY <1>6, <1>7, <1>9, <1>10, <1>11, <1>12, <1>13, <1>14 DEF IInv

-----------------------------------------------------------------------------
(***************************************************************************)
(* One step.                                                               *)
(***************************************************************************)
\* The counters of the environment only grow to their bounds.
LEMMA Counted ==
    ASSUME TypeOK
    PROVE  /\ Event => events' \in 0 .. MaxEvents
           /\ calls < MaxCalls /\ calls' = calls + 1 => calls' \in 0 .. MaxCalls
BY ClassifyAssumption DEF TypeOK, Event

\* classify() begins: it owes the providers that are ready now.
LEMMA StartStep == ASSUME IInv, NEW t \in Threads, StartCall(t) PROVE IInv'
<1> DEFINE S == Ready({})
           c == [NoCall EXCEPT !.at = "choose", !.must = S]
<1>1. S \in SUBSET Providers /\ {} \in SUBSET Providers
  BY DEF Ready, IInv, TypeOK
<1>2. Owes(c, S)
  <2>1. Is(c, "choose", None, 0, {}, S)
    BY <1>1, FreshCalls
  <2> HIDE DEF c
  <2> QED BY <2>1, <1>1, ClassifyAssumption DEF Owes, Ready, Is
<1>3. Is(c, "choose", None, 0, {}, S)
  BY <1>1, FreshCalls
<1>4. /\ call' = [call EXCEPT ![t] = c] /\ UNCHANGED <<settings, host, probe>>
      /\ calls' \in 0 .. MaxCalls /\ events' \in 0 .. MaxEvents
  BY Counted DEF StartCall, IInv, TypeOK
<1>5. 0 <= gen
  BY ClassifyAssumption DEF IInv, TypeOK, Gens
<1> HIDE DEF c, S
<1> QED BY <1>2, <1>3, <1>4, <1>5, CallMoved DEF Is

\* _choose: if nobody is ready, nobody is owed.
LEMMA ChooseStep == ASSUME IInv, NEW t \in Threads, Choose(t) PROVE IInv'
<1>1. /\ call[t].at = "choose" /\ UNCHANGED <<settings, host, probe, calls, events>>
      /\ call[t] \in Call /\ call[t].prov = None /\ call[t].must \subseteq Providers
      /\ cache \subseteq Providers /\ gen \in Gens /\ 0 <= gen
      /\ calls' \in 0 .. MaxCalls /\ events' \in 0 .. MaxEvents
  <2>1. call[t].at = "choose" /\ UNCHANGED <<settings, host, probe, calls, events>>
    BY DEF Choose
  <2>2. call[t] \in Call /\ gen \in Gens /\ 0 <= gen /\ cache \subseteq Providers
    BY ClassifyAssumption DEF IInv, TypeOK, Gens
  <2>3. call[t].must \subseteq Providers
    BY <2>2 DEF Call
  <2>4. call[t].prov = None
    BY <2>1 DEF IInv, Shaped, OnHost
  <2> QED BY <2>1, <2>2, <2>3, <2>4 DEF IInv, TypeOK
<1>2. call[t].must \subseteq Ready(call[t].tried)
  BY <1>1 DEF IInv, MustReady, Ready, OnHost
<1>3. CASE Ready(call[t].tried) = {} /\
           call' = [call EXCEPT ![t] = [NoCall EXCEPT !.at = "none", !.must = call[t].must]]
  <2> DEFINE c == [NoCall EXCEPT !.at = "none", !.must = call[t].must]
  <2>1. Is(c, "none", None, 0, {}, call[t].must)
    BY <1>1, FreshCalls
  <2>2. call[t].must = {} /\ call' = [call EXCEPT ![t] = c]
    BY <1>2, <1>3
  <2> HIDE DEF c
  <2>3. Owes(c, c.must)
    BY <2>1, <2>2 DEF Owes, Is
  <2> QED BY <1>1, <2>1, <2>2, <2>3, CallMoved DEF Is
<1>4. ASSUME NEW p \in Ready(call[t].tried),
             call' = [call EXCEPT ![t] = [call[t] EXCEPT !.at = "slot", !.prov = p, !.gen = gen,
                                                         !.tried = @ \cup {p}]]
      PROVE  IInv'
  <2> DEFINE c == [call[t] EXCEPT !.at = "slot", !.prov = p, !.gen = gen, !.tried = @ \cup {p}]
  <2>1. p \in Providers /\ ~is_paused(host[p][gen])
    BY <1>1 DEF Ready
  <2>2. Is(c, "slot", p, gen, call[t].tried \cup {p}, call[t].must)
    BY <1>1, <2>1, CallMoves
  <2>3. call' = [call EXCEPT ![t] = c]
    BY <1>4
  <2> HIDE DEF c
  <2>4. Owes(c, c.must)
    BY <1>2, <2>1, <2>2 DEF Owes, Is, Ready
  <2>5. p # None /\ gen <= gen
    BY <1>1, <2>1, ClassifyAssumption DEF Gens
  <2> QED BY <1>1, <2>2, <2>3, <2>4, <2>5, CallMoved DEF Is
<1> QED BY <1>3, <1>4 DEF Choose

\* The slot is had: the chat goes out on a host that is not paused, or the call
\* looks for another provider and does not owe this one.
LEMMA AcquireStep == ASSUME IInv, NEW t \in Threads, Acquire(t) PROVE IInv'
<1> DEFINE p == call[t].prov
           g == call[t].gen
<1>1. /\ call[t].at = "slot" /\ UNCHANGED <<settings, probe, calls, events>>
      /\ call[t] \in Call /\ p \in Providers /\ g \in Gens /\ gen \in Gens /\ 0 <= gen /\ g <= gen
      /\ calls' \in 0 .. MaxCalls /\ events' \in 0 .. MaxEvents
      /\ host[p][g] \in Host /\ host[p][g].slot = 1
  <2>1. /\ call[t].at = "slot" /\ UNCHANGED <<settings, probe, calls, events>>
        /\ host[p][g].slot > 0
    BY DEF Acquire
  <2>2. /\ call[t] \in Call /\ p \in Providers /\ g \in Gens /\ gen \in Gens /\ 0 <= gen /\ g <= gen
    BY <2>1, ClassifyAssumption DEF IInv, TypeOK, Shaped, OnHost, Call, Gens
  <2>3. host[p][g] \in Host
    BY <2>2 DEF IInv, TypeOK
  <2>4. host[p][g].slot \in 0 .. 1
    BY <2>3 DEF Host
  <2> QED BY <2>1, <2>2, <2>3, <2>4 DEF IInv, TypeOK
<1>2. CASE /\ is_paused(host[p][g]) /\ host' = host
           /\ call' = [call EXCEPT ![t] = [@ EXCEPT !.at = "choose", !.prov = None, !.gen = 0]]
  <2> DEFINE c == [call[t] EXCEPT !.at = "choose", !.prov = None, !.gen = 0]
  <2>1. Is(c, "choose", None, 0, call[t].tried, call[t].must)
    BY <1>1, CallMoves
  <2>2. call' = [call EXCEPT ![t] = c]
    BY <1>2
  <2> HIDE DEF c
  <2>3. p \notin call[t].must /\ call[t].must \subseteq Providers
    BY <1>1, <1>2 DEF IInv, MustReady, Call
  <2>4. Owes(c, c.must)
    BY <2>1, <2>3, ClassifyAssumption DEF Owes, Is, IInv, MustReady
  <2> QED BY <1>1, <1>2, <2>1, <2>2, <2>4, CallMoved DEF Is
<1>3. CASE /\ ~is_paused(host[p][g]) /\ call' = [call EXCEPT ![t].at = "post"]
           /\ host' = [host EXCEPT ![p][g].slot = @ - 1]
  <2> DEFINE c == [call[t] EXCEPT !.at = "post"]
             n == [host[p][g] EXCEPT !.slot = 0]
  <2>1. Is(c, "post", p, g, call[t].tried, call[t].must)
    BY <1>1, CallEdits
  <2>2. n \in Host /\ n.slot = 0 /\ n.left = host[p][g].left
    <3>1. 0 \in 0 .. 1
      OBVIOUS
    <3> QED BY <1>1, <3>1, HostEdits, Zenon
  <2>3. call' = [call EXCEPT ![t] = c]
    BY <1>3
  <2>4. host' = [host EXCEPT ![p][g] = n]
    <3>1. host[p][g].slot - 1 = 0
      BY <1>1
    <3> QED BY <1>3, <3>1
  <2> HIDE DEF c, n
  <2>5. /\ call' \in [Threads -> Call] /\ call'[t] = c
        /\ \A u \in Threads \ {t} : call'[u] = call[u]
        /\ host' \in [Providers -> [Gens -> Host]]
        /\ host'[p][g] = n
        /\ \A q \in Providers, k \in Gens : q # p \/ k # g => host'[q][k] = host[q][k]
    BY <1>1, <2>1, <2>2, <2>3, <2>4 DEF IInv, TypeOK, Is
  <2>6. cache' = cache /\ saved' = saved /\ gen' = gen /\ probe' = probe
    BY <1>1 DEF settings
  <2>7. TypeOK'
    BY <1>1, <2>5, <2>6 DEF IInv, TypeOK
  <2>8. Shaped' /\ NoneMeansNobody'
    BY <1>1, <2>1, <2>5, <2>6, ClassifyAssumption DEF IInv, Shaped, NoneMeansNobody, OnHost, Is
  <2>9. \A u \in Threads \ {t} : call[u].at = "post" => call[u].prov # p \/ call[u].gen # g
    BY <1>1 DEF IInv, SlotTaken
  <2>10. \A u \in Threads : /\ call[u].at = "post" => call[u].prov \in Providers /\ call[u].gen \in Gens
                            /\ call[u].must \subseteq Providers /\ call[u].gen \in Gens
    BY DEF IInv, TypeOK, Shaped, OnHost, Call
  <2>11. SlotTaken' /\ Alone'
    BY <2>1, <2>2, <2>5, <2>9, <2>10 DEF IInv, SlotTaken, Alone, Is
  <2>12. \A q \in Providers, k \in Gens : is_paused(host'[q][k]) <=> is_paused(host[q][k])
    BY <2>2, <2>5 DEF is_paused
  <2>13. CoolingDown' /\ Fresh'
    <3>1. Fresh'
      BY <2>6, <2>12 DEF IInv, Fresh
    <3>2. ASSUME NEW q \in Providers, NEW k \in Gens, is_paused(host'[q][k]),
                 NEW u \in Threads, call'[u].at = "post", call'[u].prov = q, call'[u].gen = k
          PROVE  FALSE
      <4>1. is_paused(host[q][k])
        BY <2>12, <3>2
      <4>2. u # t
        BY <1>3, <2>1, <2>5, <3>2, <4>1 DEF Is
      <4>3. u \in Chatting(q, k)
        BY <2>5, <3>2, <4>2 DEF Chatting
      <4> QED BY <4>1, <4>3 DEF IInv, CoolingDown
    <3> QED BY <3>1, <3>2 DEF CoolingDown, Chatting
  <2>14. MustReady'
    <3> SUFFICES ASSUME NEW u \in Threads, NEW q \in call'[u].must
                 PROVE  /\ q \in cache /\ ~is_paused(host'[q][gen])
                        /\ q \in call'[u].tried => call'[u].at \in {"slot", "post"} /\ call'[u].prov = q
                        /\ call'[u].prov = q => ~is_paused(host'[q][call'[u].gen])
      BY <2>6 DEF MustReady, OnHost
    <3>1. /\ q \in call[u].must /\ call'[u].tried = call[u].tried
          /\ call'[u].prov = call[u].prov /\ call'[u].gen = call[u].gen
          /\ call[u].at \in {"slot", "post"} => call'[u].at \in {"slot", "post"}
      BY <1>1, <2>1, <2>5 DEF Is
    <3>2. q \in Providers
      BY <2>10, <3>1
    <3> QED BY <1>1, <2>10, <2>12, <3>1, <3>2 DEF IInv, MustReady, OnHost
  <2> QED BY <2>7, <2>8, <2>11, <2>13, <2>14 DEF IInv
<1> QED BY <1>2, <1>3 DEF Acquire

\* What is known of a worker that has a chat out.
LEMMA PostFacts ==
    ASSUME IInv, NEW t \in Threads, call[t].at = "post"
    PROVE  /\ call[t] \in Call /\ call[t].must \subseteq Providers /\ call[t].tried \subseteq Providers
           /\ call[t].prov \in Providers /\ call[t].gen \in Gens /\ call[t].gen <= gen
           /\ host[call[t].prov][call[t].gen] \in Host
           /\ host[call[t].prov][call[t].gen].slot = 0
           /\ ~is_paused(host[call[t].prov][call[t].gen])
<1>1. call[t] \in Call
  BY DEF IInv, TypeOK
<1>2. /\ call[t].must \subseteq Providers /\ call[t].tried \subseteq Providers
      /\ call[t].prov \in Providers \cup {None} /\ call[t].gen \in Gens
  BY <1>1 DEF Call
<1>3. call[t].prov \in Providers /\ call[t].gen <= gen
  BY <1>2 DEF IInv, Shaped, OnHost
<1>4. host[call[t].prov][call[t].gen] \in Host
  BY <1>2, <1>3 DEF IInv, TypeOK
<1>5. host[call[t].prov][call[t].gen].slot = 0
  BY DEF IInv, SlotTaken
<1>6. t \in Chatting(call[t].prov, call[t].gen)
  BY DEF Chatting
<1>7. ~is_paused(host[call[t].prov][call[t].gen])
  BY <1>2, <1>3, <1>6 DEF IInv, CoolingDown
<1> QED BY <1>1, <1>2, <1>3, <1>4, <1>5, <1>7

\* An answer, or an exception that passes through classify().
LEMMA ReturnStep ==
    ASSUME IInv, NEW t \in Threads, call[t].at = "post", Return(t),
           UNCHANGED <<settings, probe>>, calls' \in 0 .. MaxCalls, events' \in 0 .. MaxEvents
    PROVE  IInv'
<1> DEFINE h == host[call[t].prov][call[t].gen]
<1>1. h \in Host /\ h.slot = 0 /\ ~is_paused(h) /\ Leave(t, h)
  BY PostFacts DEF Return
<1>2. /\ call' \in [Threads -> Call] /\ call'[t] = NoCall
      /\ \A u \in Threads \ {t} : call'[u] = call[u] /\ call[u] \in Call
  BY NoCallType DEF Return, IInv, TypeOK
<1> HIDE DEF h
<1>3. \A u \in Threads \ {t} :
        /\ Is(call'[u], call[u].at, call[u].prov, call[u].gen, call[u].tried, call'[u].must)
        /\ call'[u].must \subseteq call[u].must
  BY <1>2 DEF Is
<1>4. /\ call'[t].at = "idle" /\ call'[t].prov = None /\ call'[t].gen = 0 /\ call'[t].must = {}
  BY <1>2, NoCallType DEF Is
<1> QED BY <1>1, <1>2, <1>3, <1>4, ChatOver

\* A host is given up: whoever still had to ask it is told when it is paused.
LEMMA GiveUpStep ==
    ASSUME IInv, NEW t \in Threads, call[t].at = "post",
           NEW h \in Host, h.slot = 0, GiveUp(t, h),
           UNCHANGED <<settings, probe>>, calls' \in 0 .. MaxCalls, events' \in 0 .. MaxEvents
    PROVE  IInv'
<1> DEFINE p == call[t].prov
           c == [NoCall EXCEPT !.at = "choose", !.tried = call[t].tried, !.must = call[t].must \ {p}]
           S(u) == IF is_paused(h) THEN call[u].must \ {p} ELSE call[u].must
           d(u) == [call[u] EXCEPT !.must = S(u)]
<1>1. Leave(t, h) /\ call[t].must \subseteq Providers /\ call[t].tried \subseteq Providers
  BY PostFacts DEF GiveUp
<1>2. Is(c, "choose", None, 0, call[t].tried, call[t].must \ {p})
  <2>1. call[t].must \ {p} \in SUBSET Providers /\ call[t].tried \in SUBSET Providers
    BY <1>1
  <2> QED BY <2>1, FreshCalls, Zenon
<1>3. ASSUME NEW u \in Threads
      PROVE  /\ Is(d(u), call[u].at, call[u].prov, call[u].gen, call[u].tried, S(u))
             /\ S(u) \subseteq call[u].must
             /\ is_paused(h) => p \notin S(u)
  <2>1. call[u] \in Call
    BY DEF IInv, TypeOK
  <2>2. S(u) \in SUBSET Providers /\ S(u) \subseteq call[u].must /\ (is_paused(h) => p \notin S(u))
    BY <2>1 DEF Call
  <2> QED BY <2>1, <2>2, CallEdits, Zenon
<1>4. call' = [u \in Threads |-> IF u = t THEN c ELSE d(u)]
  BY Zenon DEF GiveUp
<1> HIDE DEF c, d, S
<1>5. /\ call' \in [Threads -> Call] /\ call'[t] = c
      /\ \A u \in Threads \ {t} : call'[u] = d(u)
  BY <1>2, <1>3, <1>4 DEF Is
<1>6. \A u \in Threads \ {t} :
        /\ Is(call'[u], call[u].at, call[u].prov, call[u].gen, call[u].tried, call'[u].must)
        /\ call'[u].must \subseteq call[u].must
        /\ is_paused(h) => p \notin call'[u].must
  BY <1>3, <1>5 DEF Is
<1>7. /\ call'[t].at = "choose" /\ call'[t].prov = None /\ call'[t].gen = 0
      /\ call'[t].tried = call[t].tried /\ call'[t].must \subseteq call[t].must \ {p}
  BY <1>2, <1>5 DEF Is
<1> QED BY <1>1, <1>5, <1>6, <1>7, ChatOver

\* HTTP 400: once more with less, or another provider.
LEMMA BadRequestStep == ASSUME IInv, NEW t \in Threads, BadRequest(t) PROVE IInv'
<1> DEFINE h == host[call[t].prov][call[t].gen]
           c == [call[t] EXCEPT !.attempt = call[t].attempt + 1]
<1>1. /\ call[t].at = "post" /\ UNCHANGED <<settings, probe>>
      /\ calls' \in 0 .. MaxCalls /\ events' \in 0 .. MaxEvents
  BY Counted DEF BadRequest, IInv, TypeOK
<1>2. CASE GiveUp(t, h)
  BY <1>1, <1>2, PostFacts, GiveUpStep
<1>3. CASE call[t].attempt < Attempts - 1 /\ call' = [call EXCEPT ![t].attempt = @ + 1] /\ host' = host
  <2>1. call[t] \in Call /\ call[t].prov \in Providers /\ call[t].gen <= gen
    BY <1>1, PostFacts
  <2>2. call[t].attempt + 1 \in 0 .. Attempts - 1
    BY <1>3, <2>1, ClassifyAssumption DEF Call
  <2>3. Is(c, "post", call[t].prov, call[t].gen, call[t].tried, call[t].must)
    BY <1>1, <2>1, <2>2, CallEdits, Zenon
  <2>4. call' = [call EXCEPT ![t] = c]
    BY <1>3
  <2> HIDE DEF c
  <2>5. Owes(c, c.must)
    BY <1>1, <2>3 DEF IInv, MustReady, OnHost, Owes, Is
  <2>6. c.prov # None
    BY <2>1, <2>3, ClassifyAssumption DEF Is
  <2> QED BY <1>1, <1>3, <2>1, <2>3, <2>4, <2>5, <2>6, CallMoved DEF Is
<1> QED BY <1>2, <1>3 DEF BadRequest

\* What one worker does.
LEMMA WorkerStep ==
    ASSUME IInv, NEW t \in Threads, StartCall(t) \/ Step(t) \/ Trouble(t)
    PROVE  IInv'
<1>1. CASE Answered(t) \/ NoModel(t)
  <2>1. /\ call[t].at = "post" /\ Return(t) /\ UNCHANGED <<settings, probe>>
        /\ calls' \in 0 .. MaxCalls /\ events' \in 0 .. MaxEvents
    BY <1>1, Counted DEF Answered, NoModel, IInv, TypeOK
  <2> QED BY <2>1, ReturnStep
<1>2. CASE Refused(t)
  <2>1. PICK h \in Refusals(host[call[t].prov][call[t].gen]) : GiveUp(t, h)
    BY <1>2 DEF Refused
  <2>2. /\ call[t].at = "post" /\ UNCHANGED <<settings, probe>>
        /\ calls' \in 0 .. MaxCalls /\ events' \in 0 .. MaxEvents
    BY <1>2, Counted DEF Refused, IInv, TypeOK
  <2>3. h \in Host /\ h.slot = 0
    BY <2>1, <2>2, PostFacts, RefusalsType
  <2> QED BY <2>1, <2>2, <2>3, GiveUpStep
<1>3. CASE ReturnNone(t)
  <2>1. /\ call' = [call EXCEPT ![t] = NoCall] /\ UNCHANGED <<settings, host, probe>>
        /\ calls' \in 0 .. MaxCalls /\ events' \in 0 .. MaxEvents
    BY <1>3 DEF ReturnNone, IInv, TypeOK
  <2>2. 0 <= gen
    BY ClassifyAssumption DEF IInv, TypeOK, Gens
  <2>3. Owes(NoCall, {})
    BY DEF Owes
  <2> QED BY <2>1, <2>2, <2>3, NoCallType, CallMoved DEF Is
<1> QED BY <1>1, <1>2, <1>3, StartStep, ChooseStep, AcquireStep, BadRequestStep DEF Step, Trouble

\* available(): a probe touches neither pauses nor slots.
LEMMA AskStep == ASSUME IInv, NEW b \in Probers, NEW p \in Providers, AskUp(b, p) PROVE IInv'
<1> DEFINE n == [host[p][gen] EXCEPT !.probing = TRUE]
           m == [prov |-> p, gen |-> gen]
<1>1. /\ host' = [host EXCEPT ![p][gen].probing = TRUE] /\ probe' = [probe EXCEPT ![b] = m]
      /\ UNCHANGED <<settings, call, calls, events>>
  BY DEF AskUp
<1>2. gen \in Gens /\ host[p][gen] \in Host
  BY DEF IInv, TypeOK
<1>3. n \in Host /\ n.slot = host[p][gen].slot /\ n.left = host[p][gen].left
  BY <1>2, HostEdits, Zenon
<1>4. host' = [host EXCEPT ![p][gen] = n]
  BY <1>1
<1>5. m \in Probe /\ m.prov # None
  BY <1>2, ClassifyAssumption DEF Probe
<1> HIDE DEF n, m
<1>6. /\ host' \in [Providers -> [Gens -> Host]]
      /\ \A q \in Providers, k \in Gens : /\ host'[q][k].slot = host[q][k].slot
                                          /\ host'[q][k].left = host[q][k].left
  BY <1>2, <1>3, <1>4 DEF IInv, TypeOK
<1>7. /\ probe' \in [Probers -> Probe]
      /\ \A a \in Probers : probe'[a].prov = None => probe'[a] = NoProbe
  BY <1>1, <1>5 DEF IInv, TypeOK, Shaped
<1>8. calls' \in 0 .. MaxCalls /\ events' \in 0 .. MaxEvents
  BY <1>1 DEF IInv, TypeOK
<1> QED BY <1>1, <1>6, <1>7, <1>8, HostsQuiet DEF is_paused

LEMMA ProbeStep == ASSUME IInv, NEW b \in Probers, NEW up \in BOOLEAN, ProbeEnds(b, up) PROVE IInv'
<1> DEFINE p == probe[b].prov
           g == probe[b].gen
           n == Probed(host[p][g], up)
<1>1. /\ probe[b] # NoProbe /\ host' = [host EXCEPT ![p][g] = n] /\ probe' = [probe EXCEPT ![b] = NoProbe]
      /\ UNCHANGED <<settings, call, calls>>
  BY DEF ProbeEnds
<1>2. p \in Providers /\ g \in Gens
  BY <1>1 DEF IInv, TypeOK, Shaped, Probe
<1>3. host[p][g] \in Host
  BY <1>2 DEF IInv, TypeOK
<1>4. n \in Host /\ n.slot = host[p][g].slot /\ n.left = host[p][g].left
  BY <1>3, HostEdits, Zenon
<1> HIDE DEF n
<1>5. /\ host' \in [Providers -> [Gens -> Host]]
      /\ \A q \in Providers, k \in Gens : /\ host'[q][k].slot = host[q][k].slot
                                          /\ host'[q][k].left = host[q][k].left
  BY <1>1, <1>2, <1>4 DEF IInv, TypeOK
<1>6. NoProbe \in Probe
  BY ClassifyAssumption DEF NoProbe, Probe, Gens
<1>7. /\ probe' \in [Probers -> Probe]
      /\ \A a \in Probers : probe'[a].prov = None => probe'[a] = NoProbe
  BY <1>1, <1>6 DEF IInv, TypeOK, Shaped
<1>8. calls' \in 0 .. MaxCalls /\ events' \in 0 .. MaxEvents
  BY <1>1, Counted DEF ProbeEnds, IInv, TypeOK
<1> QED BY <1>1, <1>5, <1>7, <1>8, HostsQuiet DEF is_paused

\* Time.
LEMMA TickStep == ASSUME IInv, Tick PROVE IInv'
<1>1. \A p \in Providers, g \in Gens : host'[p][g] = Older(host[p][g]) /\ host[p][g] \in Host
  BY DEF Tick, IInv, TypeOK
<1>2. host' \in [Providers -> [Gens -> Host]]
  <2>1. host' = [p \in Providers |-> [g \in Gens |-> Older(host[p][g])]]
    BY DEF Tick
  <2> QED BY <1>1, <2>1, OlderType
<1>3. \A p \in Providers, g \in Gens : /\ host'[p][g].slot = host[p][g].slot
                                       /\ is_paused(host'[p][g]) => is_paused(host[p][g])
  BY <1>1, OlderType
<1>4. UNCHANGED <<settings, call, probe, calls, events>>
  BY DEF Tick
<1> QED BY <1>2, <1>3, <1>4, HostsQuiet DEF IInv, TypeOK, Shaped

\* A save takes providers out of use, and what nobody uses is not owed.
LEMMA SaveStep == ASSUME IInv, NEW p \in Providers, Save(p) PROVE IInv'
<1> DEFINE d(t) == [call[t] EXCEPT !.must = call[t].must \cap cache']
<1>1. /\ ~saved /\ gen < MaxSaves /\ saved' = TRUE /\ UNCHANGED <<gen, host, probe, calls>>
      /\ cache' \in Changes(p) /\ events' \in 0 .. MaxEvents
  BY Counted DEF Save, IInv
<1>2. cache' \subseteq Providers
  BY <1>1 DEF Changes, IInv, TypeOK
<1>3. call' = [t \in Threads |-> d(t)]
  <2>1. call' = [t \in Threads |-> [call[t] EXCEPT !.must = @ \cap cache']]
    BY DEF Save
  <2> QED BY <2>1, Zenon
<1>4. ASSUME NEW t \in Threads
      PROVE  Is(d(t), call[t].at, call[t].prov, call[t].gen, call[t].tried, call[t].must \cap cache')
  <2>1. call[t] \in Call
    BY DEF IInv, TypeOK
  <2>2. call[t].must \cap cache' \in SUBSET Providers
    BY <1>2
  <2> QED BY <2>1, <2>2, CallEdits, Zenon
<1> HIDE DEF d
<1>5. /\ call' \in [Threads -> Call]
      /\ \A t \in Threads : Is(call'[t], call[t].at, call[t].prov, call[t].gen, call[t].tried,
                               call[t].must \cap cache')
  BY <1>3, <1>4 DEF Is
<1>6. TypeOK'
  BY <1>1, <1>2, <1>5 DEF IInv, TypeOK
<1>7. Shaped'
  BY <1>1, <1>5 DEF IInv, Shaped, OnHost, Is
<1>8. SlotTaken' /\ Alone'
  BY <1>1, <1>5 DEF IInv, SlotTaken, Alone, Is
<1>9. CoolingDown' /\ Fresh'
  BY <1>1, <1>5 DEF IInv, CoolingDown, Fresh, Chatting, Is
<1>10. MustReady' /\ NoneMeansNobody'
  BY <1>1, <1>5 DEF IInv, MustReady, NoneMeansNobody, OnHost, Is
<1> QED BY <1>6, <1>7, <1>8, <1>9, <1>10 DEF IInv

\* The table is replaced: the next one has hosts that nobody has paused, and the
\* objects that calls have in their hands stay.
LEMMA ResetStep == ASSUME IInv, reset PROVE IInv'
<1>1. /\ saved /\ saved' = FALSE /\ gen' = gen + 1
      /\ UNCHANGED <<cache, call, probe, calls, events>>
      /\ gen \in Gens /\ gen + 1 \in Gens
  <2>1. saved /\ saved' = FALSE /\ gen' = gen + 1 /\ UNCHANGED <<cache, call, probe, calls, events>>
    BY DEF reset
  <2>2. gen < MaxSaves /\ gen \in Gens
    BY <2>1 DEF IInv, Shaped, TypeOK
  <2> QED BY <2>1, <2>2, ClassifyAssumption DEF Gens
<1>2. /\ host' \in [Providers -> [Gens -> Host]]
      /\ \A p \in Providers, g \in Gens :
            host'[p][g] = IF g = gen /\ ~Held(p) THEN NewHost ELSE host[p][g]
  <2>1. host' = [p \in Providers |-> [host[p] EXCEPT ![gen] = IF Held(p) THEN @ ELSE NewHost]]
    BY DEF reset
  <2>2. ASSUME NEW p \in Providers
        PROVE  /\ host'[p] \in [Gens -> Host]
               /\ \A g \in Gens : host'[p][g] = IF g = gen /\ ~Held(p) THEN NewHost ELSE host[p][g]
    <3>1. host[p] \in [Gens -> Host]
      BY DEF IInv, TypeOK
    <3>2. host'[p] = [host[p] EXCEPT ![gen] = IF Held(p) THEN host[p][gen] ELSE NewHost]
      BY <2>1
    <3>3. CASE Held(p)
      BY <1>1, <3>1, <3>2, <3>3
    <3>4. CASE ~Held(p)
      BY <1>1, <3>1, <3>2, <3>4, NewHostType
    <3> QED BY <3>3, <3>4
  <2>3. host' = [p \in Providers |-> host'[p]]
    BY <2>1
  <2> QED BY <2>2, <2>3
<1>3. /\ \A t \in Threads : /\ call[t] \in Call /\ call[t].gen \in Gens /\ call[t].gen <= gen
                            /\ call[t].must \subseteq Providers
                            /\ OnHost(t) => call[t].prov \in Providers
  BY DEF IInv, TypeOK, Shaped, Call
<1>4. ASSUME NEW t \in Threads, OnHost(t)
      PROVE  host'[call[t].prov][call[t].gen] = host[call[t].prov][call[t].gen]
  <2>1. call[t].gen = gen => Held(call[t].prov)
    BY DEF Held
  <2> QED BY <1>2, <1>3, <1>4, <2>1
<1>5. \A p \in Providers, g \in Gens : is_paused(host'[p][g]) => is_paused(host[p][g])
  BY <1>2, NewHostType DEF is_paused
<1>6. TypeOK'
  BY <1>1, <1>2 DEF IInv, TypeOK
<1>7. Shaped'
  <2>1. \A t \in Threads : call[t].gen <= gen + 1
    BY <1>1, <1>3 DEF Gens
  <2> QED BY <1>1, <2>1 DEF IInv, Shaped, OnHost
<1>8. SlotTaken' /\ Alone' /\ NoneMeansNobody'
  BY <1>1, <1>4 DEF IInv, SlotTaken, Alone, NoneMeansNobody, OnHost
<1>9. CoolingDown'
  BY <1>1, <1>5 DEF IInv, CoolingDown, Chatting
<1>10. Fresh'
  BY <1>1, <1>5 DEF IInv, Fresh, Gens
<1>11. MustReady'
  <2> SUFFICES ASSUME NEW t \in Threads, NEW p \in call[t].must
               PROVE  /\ p \in cache /\ ~is_paused(host'[p][gen + 1])
                      /\ p \in call[t].tried => OnHost(t) /\ call[t].prov = p
                      /\ call[t].prov = p => ~is_paused(host'[p][call[t].gen])
    BY <1>1 DEF MustReady, OnHost
  <2>1. p \in Providers
    BY <1>3
  <2>2. ~is_paused(host[p][gen + 1])
    BY <1>1, <2>1 DEF IInv, Fresh, Gens
  <2> QED BY <1>1, <1>3, <1>5, <2>1, <2>2 DEF IInv, MustReady
<1> QED BY <1>6, <1>7, <1>8, <1>9, <1>10, <1>11 DEF IInv

LEMMA IInvStep == IInv /\ [Next]_vars => IInv'
<1> SUFFICES ASSUME IInv, [Next]_vars PROVE IInv'
  OBVIOUS
<1>1. ASSUME NEW t \in Threads, StartCall(t) \/ Step(t) \/ Trouble(t) PROVE IInv'
  BY <1>1, WorkerStep
<1>2. ASSUME NEW b \in Probers, NEW p \in Providers, AskUp(b, p) PROVE IInv'
  BY <1>2, AskStep
<1>3. ASSUME NEW b \in Probers, NEW up \in BOOLEAN, ProbeEnds(b, up) PROVE IInv'
  BY <1>3, ProbeStep
<1>4. ASSUME NEW p \in Providers, Save(p) PROVE IInv'
  BY <1>4, SaveStep
<1>5. CASE reset
  BY <1>5, ResetStep
<1>6. CASE Tick
  BY <1>6, TickStep
<1>7. CASE UNCHANGED vars
  BY <1>7 DEF vars, settings, IInv, TypeOK, Shaped, OnHost, SlotTaken, Alone, CoolingDown, Chatting,
     Fresh, MustReady, NoneMeansNobody, Gens
<1> QED BY <1>1, <1>2, <1>3, <1>4, <1>5, <1>6, <1>7 DEF Next

-----------------------------------------------------------------------------
(***************************************************************************)
(* The theorems.                                                           *)
(***************************************************************************)
\* Types, slots, pauses and what calls owe are inductive together.
THEOREM InductiveInvariant == Spec => []IInv
BY IInvInit, IInvStep, PTL DEF Spec

\* classify.py, class _Paused: "Classifier is cooling down; do not hit the chat
\* API."  However many workers chat, probe and save, no chat is out on a host
\* that is paused, and pauses and backoffs stay within their limits.
THEOREM HostsInvHolds == Spec => []HostsInv
<1>1. IInv => HostsInv
  BY DEF IInv, HostsInv
<1> QED BY <1>1, InductiveInvariant, PTL

\* classify.py, classify(): None means that every provider that was there and
\* ready all the time has been asked and has failed, although the loop reads
\* tables that other calls and saves change under it.
THEOREM NoneMeansNobodyHolds == Spec => []NoneMeansNobody
<1>1. IInv => NoneMeansNobody
  BY DEF IInv
<1> QED BY <1>1, InductiveInvariant, PTL
=============================================================================
