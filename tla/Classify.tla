------------------------------ MODULE Classify ------------------------------
(***************************************************************************)
(* The model backends of a node: observer/classify.py, which spreads chats *)
(* over the providers in use and leaves alone one that asked for it, and   *)
(* observer/llm.py, which keeps the settings.                              *)
(*                                                                         *)
(* Workers call classify(), any thread asks available(), and admins save   *)
(* settings.  A save replaces the table of _Host objects; a call that is   *)
(* under way keeps the object it chose, so the objects of a provider are   *)
(* told apart by the number of the save they belong to (gen).              *)
(*                                                                         *)
(* Time is counted in _BACKOFF_START (20 s).  What takes less, the gap     *)
(* that pace() keeps between chats, is not counted; how long a probe is    *)
(* believed (60 s, or 5 s when it failed) is left open.                    *)
(***************************************************************************)
EXTENDS Integers

CONSTANTS
    Providers,      \* provider ids
    Threads,        \* workers that call classify()
    Probers,        \* threads that call available()
    Initial,        \* providers in use at the start
    Cap,            \* 300 s, the longest pause and the largest backoff
    KeyPause,       \* 60 s, the pause after HTTP 401
    Window,         \* 180 s, after which the backoff starts again
    Attempts,       \* chats one provider may get for one text: 3 payloads, 3 lengths
    MaxEvents,      \* bound on bad answers, failed probes and saves
    MaxCalls,       \* bound on calls of classify()
    MaxSaves,       \* bound on saves
    None

ASSUME ClassifyAssumption ==
    /\ Initial \subseteq Providers
    /\ {Cap, KeyPause, Window, Attempts} \subseteq Nat \ {0}
    /\ KeyPause <= Cap
    /\ {MaxEvents, MaxCalls, MaxSaves} \subseteq Nat
    /\ None \notin Providers

VARIABLES
    cache,          \* llm._cache: the providers in use
    saved,          \* llm._save has set the cache and not yet called reset()
    gen,            \* saves that have replaced the table _hosts
    host,           \* the _Host objects: provider -> save -> state
    call,           \* what each worker is doing
    probe,          \* what each thread that asks available() is doing
    calls, events           \* see MaxCalls, MaxEvents

settings == <<cache, saved, gen>>
vars == <<settings, host, call, probe, calls, events>>

Gens == 0 .. MaxSaves

\* left: the time until pause_until; since: the time since last_429; ok: avail_ok.
Host == [slot : 0 .. 1, left : 0 .. Cap, backoff : 1 .. Cap, since : 0 .. Window + 1,
         ok : BOOLEAN, probing : BOOLEAN]
NewHost == [slot |-> 1, left |-> 0, backoff |-> 1, since |-> Window + 1,
            ok |-> FALSE, probing |-> FALSE]

\* must is not in the code: the providers that have been in use and not paused
\* ever since the call began, and have not failed it.
Call == [at : {"idle", "choose", "slot", "post", "none"},
         prov : Providers \cup {None}, gen : Gens, tried : SUBSET Providers,
         attempt : 0 .. Attempts - 1, must : SUBSET Providers]
NoCall == [at |-> "idle", prov |-> None, gen |-> 0, tried |-> {}, attempt |-> 0, must |-> {}]

Probe == [prov : Providers \cup {None}, gen : Gens]
NoProbe == [prov |-> None, gen |-> 0]

TypeOK ==
    /\ cache \subseteq Providers
    /\ saved \in BOOLEAN
    /\ gen \in Gens
    /\ host \in [Providers -> [Gens -> Host]]
    /\ call \in [Threads -> Call]
    /\ probe \in [Probers -> Probe]
    /\ calls \in 0 .. MaxCalls /\ events \in 0 .. MaxEvents

Smaller(a, b) == IF a < b THEN a ELSE b
Larger(a, b) == IF a > b THEN a ELSE b
Event == events < MaxEvents /\ events' = events + 1

-----------------------------------------------------------------------------
(***************************************************************************)
(* _Host.                                                                  *)
(***************************************************************************)
is_paused(h) == h.left > 0

\* pause(): a pause that ends later is kept, and the host counts as down.
pause(h, time) ==
    [h EXCEPT !.left = Larger(time, @), !.ok = FALSE]

\* on_rate_limit(), with what the Retry-After header says.
on_rate_limit(h, after) ==
    LET backoff == IF h.since > Window THEN 1 ELSE h.backoff
    IN  [pause(h, Smaller(Larger(after, backoff), Cap)) EXCEPT
            !.backoff = Smaller(2 * backoff, Cap), !.since = 0]

\* A unit of time has gone by for a host.
Older(h) ==
    [h EXCEPT !.left = Larger(@ - 1, 0), !.since = Smaller(@ + 1, Window + 1)]

-----------------------------------------------------------------------------
(***************************************************************************)
(* classify().                                                             *)
(***************************************************************************)
\* The providers _choose finds ready; it takes the one that has not chatted for
\* the longest time, here any of them.
Ready(tried) == {p \in cache \ tried : ~is_paused(host[p][gen])}

StartCall(t) ==
    /\ call[t] = NoCall
    /\ calls < MaxCalls
    /\ cache # {}
    /\ calls' = calls + 1
    /\ call' = [call EXCEPT ![t] = [NoCall EXCEPT !.at = "choose", !.must = Ready({})]]
    /\ UNCHANGED <<settings, host, probe, events>>

Choose(t) ==
    /\ call[t].at = "choose"
    /\ \/ /\ Ready(call[t].tried) = {}
          /\ call' = [call EXCEPT ![t] = [NoCall EXCEPT !.at = "none", !.must = call[t].must]]
       \/ \E p \in Ready(call[t].tried) :
            call' = [call EXCEPT ![t] = [call[t] EXCEPT !.at = "slot", !.prov = p, !.gen = gen,
                                                        !.tried = @ \cup {p}]]
    /\ UNCHANGED <<settings, host, probe, calls, events>>

\* Mutant: the slot is not waited for.
Acquire_NoWait(t) ==
    LET p == call[t].prov
        g == call[t].gen
    IN  /\ call[t].at = "slot"
        /\ IF is_paused(host[p][g])
           THEN call' = [call EXCEPT ![t] = [@ EXCEPT !.at = "choose", !.prov = None, !.gen = 0]] /\ host' = host
           ELSE /\ call' = [call EXCEPT ![t].at = "post"]
                /\ host' = [host EXCEPT ![p][g].slot = Larger(0, @ - 1)]
        /\ UNCHANGED <<settings, probe, calls, events>>

\* with host.slot: the pause is looked at once more when the slot is had, and by
\* _request.  The model is asked for, pace() waits, and the chat is sent.
Acquire(t) ==
    LET p == call[t].prov
        g == call[t].gen
    IN  /\ call[t].at = "slot"
        /\ host[p][g].slot > 0
        /\ IF is_paused(host[p][g])
           THEN call' = [call EXCEPT ![t] = [@ EXCEPT !.at = "choose", !.prov = None, !.gen = 0]] /\ host' = host
           ELSE /\ call' = [call EXCEPT ![t].at = "post"]
                /\ host' = [host EXCEPT ![p][g].slot = @ - 1]
        /\ UNCHANGED <<settings, probe, calls, events>>

\* A thread other than t has the object of t's provider in its hands.
Shared(t) ==
    \/ \E u \in Threads \ {t} : call[u].prov = call[t].prov /\ call[u].gen = call[t].gen
    \/ \E b \in Probers : probe[b].prov = call[t].prov /\ probe[b].gen = call[t].gen

\* t leaves the with block of its host, which is now h; one that a save has dropped
\* from the table is garbage when the last thread lets go of it.
Leave(t, h) ==
    host' = [host EXCEPT ![call[t].prov][call[t].gen] =
                IF call[t].gen < gen /\ ~Shared(t) THEN NewHost ELSE [h EXCEPT !.slot = @ + 1]]

\* The host h of t's call is given up, and t looks for another one.
GiveUp(t, h) ==
    /\ Leave(t, h)
    /\ call' = [u \in Threads |->
                  IF u = t
                  THEN [NoCall EXCEPT !.at = "choose", !.tried = call[t].tried,
                                      !.must = call[t].must \ {call[t].prov}]
                  ELSE [call[u] EXCEPT !.must = IF is_paused(h) THEN @ \ {call[t].prov} ELSE @]]

\* Mutant: an answer is returned with the slot still taken.
Return_KeepsSlot(t) == host' = host /\ call' = [call EXCEPT ![t] = NoCall]

\* classify() returns an answer, or an exception passes through it.
Return(t) ==
    /\ Leave(t, host[call[t].prov][call[t].gen])
    /\ call' = [call EXCEPT ![t] = NoCall]

\* _model_id finds no model, and classify() raises.
NoModel(t) ==
    /\ call[t].at = "post"
    /\ Event
    /\ Return(t)
    /\ UNCHANGED <<settings, probe, calls>>

\* A usable answer.
Answered(t) ==
    /\ call[t].at = "post"
    /\ Return(t)
    /\ UNCHANGED <<settings, probe, calls, events>>

\* HTTP 400: another payload, then a shorter text, then another provider.
BadRequest(t) ==
    /\ call[t].at = "post"
    /\ Event
    /\ IF call[t].attempt < Attempts - 1 /\ ~is_paused(host[call[t].prov][call[t].gen])
       THEN call' = [call EXCEPT ![t].attempt = @ + 1] /\ host' = host
       ELSE GiveUp(t, host[call[t].prov][call[t].gen])
    /\ UNCHANGED <<settings, probe, calls>>

\* What a host may be after a refusal: HTTP 401, 402, 429 with or without a
\* Retry-After, another status, no connection, or an answer without JSON.
Refusals(h) ==
    {pause(h, KeyPause), pause(h, Cap), on_rate_limit(h, 0), on_rate_limit(h, Cap), h}

\* Mutant: a refusal ends the call.
Refused_Ends(t) ==
    /\ call[t].at = "post"
    /\ Event
    /\ \E h \in Refusals(host[call[t].prov][call[t].gen]) :
         /\ Leave(t, h)
         /\ call' = [call EXCEPT ![t].at = "none", ![t].must = @ \ {call[t].prov}]
    /\ UNCHANGED <<settings, probe, calls>>

Refused(t) ==
    /\ call[t].at = "post"
    /\ Event
    /\ \E h \in Refusals(host[call[t].prov][call[t].gen]) : GiveUp(t, h)
    /\ UNCHANGED <<settings, probe, calls>>

\* classify() returns None, and the worker goes on.
ReturnNone(t) ==
    /\ call[t].at = "none"
    /\ call' = [call EXCEPT ![t] = NoCall]
    /\ UNCHANGED <<settings, host, probe, calls, events>>

-----------------------------------------------------------------------------
(***************************************************************************)
(* available(): _host_up for a provider in use.                            *)
(***************************************************************************)
\* The first section under host.lock: whoever finds the last answer stale, no
\* pause, and nobody asking, asks.  The others go by what is known, or say no.
AskUp(b, p) ==
    /\ probe[b] = NoProbe
    /\ p \in cache
    /\ ~is_paused(host[p][gen])
    /\ ~host[p][gen].probing
    /\ host' = [host EXCEPT ![p][gen].probing = TRUE]
    /\ probe' = [probe EXCEPT ![b] = [prov |-> p, gen |-> gen]]
    /\ UNCHANGED <<settings, call, calls, events>>

\* Mutant: only a good answer ends the probe.
Probed_KeepsFlag(h, up) == [h EXCEPT !.ok = up, !.probing = ~up]

\* The second section.
Probed(h, up) == [h EXCEPT !.ok = up, !.probing = FALSE]

ProbeEnds(b, up) ==
    /\ probe[b] # NoProbe
    /\ IF up THEN events' = events ELSE Event
    /\ host' = [host EXCEPT ![probe[b].prov][probe[b].gen] = Probed(@, up)]
    /\ probe' = [probe EXCEPT ![b] = NoProbe]
    /\ UNCHANGED <<settings, call, calls>>

-----------------------------------------------------------------------------
(***************************************************************************)
(* POST /api/llm: the settings are changed, then the hosts are forgotten.  *)
(* One save at a time; two at once overwrite each other's providers.       *)
(***************************************************************************)
\* set_active, disable and save_provider; without a provider the first two leave none.
Changes(p) == {{}, {p}, cache \ {p}, cache \cup {p}}

Save(p) ==
    /\ ~saved
    /\ gen < MaxSaves
    /\ Event
    /\ saved' = TRUE
    /\ cache' \in Changes(p)
    /\ call' = [t \in Threads |-> [call[t] EXCEPT !.must = @ \cap cache']]
    /\ UNCHANGED <<gen, host, probe, calls>>

\* Some thread has the object of p in its hands; otherwise it is garbage.
Held(p) ==
    \/ \E t \in Threads : call[t].prov = p /\ call[t].gen = gen
    \/ \E b \in Probers : probe[b] = [prov |-> p, gen |-> gen]

reset ==
    /\ saved
    /\ saved' = FALSE
    /\ gen' = gen + 1
    /\ host' = [p \in Providers |-> [host[p] EXCEPT ![gen] = IF Held(p) THEN @ ELSE NewHost]]
    /\ UNCHANGED <<cache, call, probe, calls, events>>

-----------------------------------------------------------------------------
Tick ==
    /\ host' = [p \in Providers |-> [g \in Gens |-> Older(host[p][g])]]
    /\ UNCHANGED <<settings, call, probe, calls, events>>

Init ==
    /\ cache = Initial
    /\ saved = FALSE
    /\ gen = 0
    /\ host = [p \in Providers |-> [g \in Gens |-> NewHost]]
    /\ call = [t \in Threads |-> NoCall]
    /\ probe = [b \in Probers |-> NoProbe]
    /\ calls = 0 /\ events = 0

\* What a worker in classify() does by itself, and the answers it gets.
Step(t) == Choose(t) \/ Acquire(t) \/ Answered(t) \/ ReturnNone(t)
Trouble(t) == NoModel(t) \/ BadRequest(t) \/ Refused(t)

Next ==
    \/ \E t \in Threads : StartCall(t) \/ Step(t) \/ Trouble(t)
    \/ \E b \in Probers : (\E p \in Providers : AskUp(b, p)) \/ \E up \in BOOLEAN : ProbeEnds(b, up)
    \/ \E p \in Providers : Save(p)
    \/ reset \/ Tick

\* Threads go on, an HTTP request ends by its timeout, available() is asked again
\* and again, and time passes.  Bad answers, calls and saves are bounded; nothing is
\* assumed of when they come, or of which of several threads goes on.
Fairness ==
    /\ WF_vars(\E t \in Threads : Step(t))
    /\ WF_vars(\E b \in Probers : (\E p \in Providers : AskUp(b, p)) \/ ProbeEnds(b, TRUE))
    /\ WF_vars(reset) /\ WF_vars(Tick)

Spec == Init /\ [][Next]_vars /\ Fairness

-----------------------------------------------------------------------------
(***************************************************************************)
(* Properties.                                                             *)
(***************************************************************************)
Chatting(p, g) == {t \in Threads : call[t].at = "post" /\ call[t].prov = p /\ call[t].gen = g}

\* classify.py, class _Paused: "Classifier is cooling down; do not hit the chat
\* API."  The pause is looked at before pace() sleeps and the chat is sent after
\* it; no chat is out on a host that is paused, because only the holder of its
\* slot can have it paused.  A save gives the provider a new host, without the
\* pause of the old one.
CoolingDown ==
    \A p \in Providers, g \in Gens : is_paused(host[p][g]) => Chatting(p, g) = {}

\* Pauses and backoffs stay within their limits, and are kept.
HostsInv == TypeOK /\ CoolingDown

\* classify.py, classify(): None means that no provider would have answered.  One
\* that has been in use and not paused from the beginning to the end of the call
\* has been asked and has failed, whatever other calls and saves did meanwhile to
\* the tables the loop reads.
NoneMeansNobody == \A t \in Threads : call[t].at = "none" => call[t].must = {}

\* classify.py, the while loop of classify(): every call returns, although other
\* calls take the slots it waits for and saves change the providers under it.
CallsReturn ==
    (\E t \in Threads : call[t] # NoCall) ~> (\A t \in Threads : call[t] = NoCall)

\* classify.py, available(): when the providers in use have stopped refusing, the
\* answer is yes in the end and stays so: no pause, no probe that a pause or a save
\* overtook, and no flag left behind keeps the node without a model.
AvailableAgain ==
    <>[](cache = {} \/ \E p \in cache : host[p][gen].ok /\ ~is_paused(host[p][gen]))
=============================================================================
