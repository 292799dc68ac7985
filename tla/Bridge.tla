------------------------------- MODULE Bridge -------------------------------
(***************************************************************************)
(* The service worker (sw.ts), the page's side of it (page.ts) and         *)
(* Http4Fetcher.outcome (fetcher.ts): every request of a site is served by *)
(* the tab's HTTP4 session or by the network, while tabs open and close,   *)
(* sessions come late or end, and the browser stops the idle worker.       *)
(*                                                                         *)
(* Each await of the worker is a stage of the request that waits there;    *)
(* each callback is one step.  Messages on a port keep their order.  Timers *)
(* may fire whenever they are set.  A transfer ends as module Transfer has *)
(* it: with its META and body, with the server's error, or failed.         *)
(***************************************************************************)
EXTENDS PageSession, FiniteSets

CONSTANTS
    Request,     \* the requests of the pages
    MaxLives     \* bound: lives of the worker

ASSUME BridgeAssumption == MaxLives \in Nat \ {0}

VARIABLES
    life,        \* lives of the worker so far
    tabs,        \* the worker's TabState of each tab
    req,         \* each request
    toPage,      \* messages posted to each tab's bridge
    asking,      \* tab: ports whose hello awaits the opened promise
    transfers,   \* requests with a live transfer in their tab
    toWorker,    \* replies on their ports
    notFound     \* history: requests the HTTP4 server answered NOT_FOUND

vars == <<page, life, tabs, req, toPage, asking, transfers, toWorker, notFound>>

-----------------------------------------------------------------------------
(* Data. *)

Unknown == [hello |-> FALSE, acked |-> "open", info |-> "none", gaveUp |-> FALSE]

TabState == [hello : BOOLEAN, acked : {"open", "yes", "no"},
             info : {"none", "up", "down"}, gaveUp : BOOLEAN]

\* An odd path lies under the prefix and maps to no asset; the worker leaves a
\* bypassed request to the browser (leaveToNetwork).
RequestState ==
    [tab : Tab, path : {"asset", "odd", "other", "bypass"},
     asked : Nat,   \* times the network was asked
     stage : {"new", "fetch", "finding", "acking", "waiting", "forwarded",
              "network", "done"},
     result : {"none", "http4", "network", "error", "aborted"}]

Hello(n) == [kind |-> "hello", life |-> n]
Serve(q) == [kind |-> "serve", req |-> q]

HelloReply == [kind : {"connecting", "up", "down"}, tab : Tab, life : 1..MaxLives]
ServeReply == [kind : {"served", "unserved"}, req : Request]

Alive(t) == page[t].script # "gone"
Of(t)    == {q \in Request : req[q].tab = t}

Init ==
    /\ PageInit
    /\ life = 1 /\ tabs = [t \in Tab |-> Unknown]
    /\ req \in [Request -> [tab : Tab, path : {"asset", "odd", "other", "bypass"},
                            asked : {0}, stage : {"new"}, result : {"none"}]]
    /\ toPage = [t \in Tab |-> {}] /\ asking = [t \in Tab |-> {}]
    /\ transfers = {} /\ toWorker = {} /\ notFound = {}

-----------------------------------------------------------------------------
(* What becomes of a request. *)

Finished(r, result) == [r EXCEPT !.stage = "done", !.result = result]
AtNetwork(r)        == [r EXCEPT !.stage = "network", !.asked = @ + 1]

\* The platform's fetch, which the worker intercepts.
LeaveToNetwork(r) == r.path = "bypass"
Intercepted(r) == IF LeaveToNetwork(r) THEN AtNetwork(r) ELSE [r EXCEPT !.stage = "finding"]

\* serve, once the tab has told of its session.
Decided(r, info) == IF info = "up" /\ r.path # "other" THEN [r EXCEPT !.stage = "forwarded"]
                    ELSE AtNetwork(r)

\* serve, once acked has resolved.
\* (The first is a mutant: a request that gave up speaks for the tab for good.)
GaveUpFirst(r, tab) ==
    IF tab.gaveUp THEN AtNetwork(r)
    ELSE IF tab.info # "none" THEN Decided(r, tab.info)
    ELSE CASE tab.acked = "no"   -> AtNetwork(r)
           [] tab.acked = "open" -> [r EXCEPT !.stage = "acking"]
           [] tab.acked = "yes"  -> [r EXCEPT !.stage = "waiting"]
Resumed(r, tab) ==
    IF tab.info # "none" THEN Decided(r, tab.info)
    ELSE CASE tab.acked = "no"   -> AtNetwork(r)
           [] tab.acked = "open" -> [r EXCEPT !.stage = "acking"]
           [] tab.acked = "yes"  -> IF tab.gaveUp THEN AtNetwork(r)
                                    ELSE [r EXCEPT !.stage = "waiting"]

\* What a page makes of the end of a transfer, for its own fetch or the worker's.
Settle(q, ok) ==
    LET r == req[q]
    IN  CASE r.stage = "fetch" -> IF ok THEN Finished(r, "http4") ELSE Intercepted(r)
          [] OTHER             -> r
Replies(qs, ok) == [kind : {IF ok THEN "served" ELSE "unserved"},
                    req : {q \in qs : req[q].stage = "forwarded"}]

\* (The first is a mutant: every request greets a tab that has not answered.)
GreetsUntilAcked(t, tab) == tab.hello /\ tabs[t].acked = "open"
Greets(t, tab)           == tab.hello /\ ~tabs[t].hello

\* The requests in qs go on as the worker's callback leaves the tab, and those it
\* forwards are posted to the tab.
Resume(t, qs, tab) ==
    LET next == [q \in Request |-> IF q \in qs THEN Resumed(req[q], tab) ELSE req[q]]
    IN  /\ tabs' = [tabs EXCEPT ![t] = tab]
        /\ req'  = next
        /\ toPage' = [toPage EXCEPT ![t] = @ \cup
               {Serve(q) : q \in {p \in qs : next[p].stage = "forwarded"}}
                             \cup (IF Greets(t, tab) THEN {Hello(life)} ELSE {})]

-----------------------------------------------------------------------------
(* The worker's callbacks. *)

FetchEvent(q) ==
    /\ req[q].stage = "new" /\ Alive(req[q].tab)
    /\ req' = [req EXCEPT ![q] = Intercepted(@)]
    /\ UNCHANGED <<page, life, tabs, toPage, asking, transfers, toWorker, notFound>>

\* serve, once clients.get has answered: the first request of a tab says hello.
Find(q) ==
    LET t == req[q].tab
    IN  /\ req[q].stage = "finding"
        /\ IF Alive(t) THEN Resume(t, {q}, [tabs[t] EXCEPT !.hello = TRUE])
           ELSE req' = [req EXCEPT ![q] = AtNetwork(@)] /\ UNCHANGED <<tabs, toPage>>
        /\ UNCHANGED <<page, life, asking, transfers, toWorker, notFound>>

Waiting(t) == {q \in Of(t) : req[q].stage \in {"acking", "waiting"}}

\* hello's port: connecting comes before ready on it.
HearHello(m) ==
    LET t   == m.tab
        tab == [tabs[t] EXCEPT !.acked = IF @ = "open" THEN "yes" ELSE @,
                               !.info  = IF m.kind = "connecting" THEN @ ELSE m.kind]
    IN  /\ m \in toWorker /\ m.kind \in {"connecting", "up", "down"}
        /\ m.kind # "connecting" => [m EXCEPT !.kind = "connecting"] \notin toWorker
        /\ Resume(t, IF tab.info = "none" /\ tabs[t].acked = "open" THEN Waiting(t)
                     ELSE IF tab.info = "none" THEN {} ELSE Waiting(t), tab)
        /\ toWorker' = toWorker \ {m}
        /\ UNCHANGED <<page, life, asking, transfers, notFound>>

AckTimeout(t) ==
    /\ tabs[t].hello /\ tabs[t].acked = "open"
    /\ Resume(t, Waiting(t), [tabs[t] EXCEPT !.acked = "no"])
    /\ UNCHANGED <<page, life, asking, transfers, toWorker, notFound>>

\* readyTimeoutMs has passed for a request.
ReadyTimeout(q) ==
    /\ req[q].stage = "waiting"
    /\ req'  = [req EXCEPT ![q] = AtNetwork(@)]
    /\ tabs' = [tabs EXCEPT ![req[q].tab].gaveUp = TRUE]
    /\ UNCHANGED <<page, life, toPage, asking, transfers, toWorker, notFound>>

\* forward's port, which is closed once the watchdog has found the tab gone.
Listening(q) == req[q].stage = "forwarded"

HearServe(m) ==
    /\ m \in toWorker /\ m.kind \in {"served", "unserved"}
    /\ req' = [req EXCEPT ![m.req] =
                  IF ~Listening(m.req) THEN @
                  ELSE IF m.kind = "served" THEN Finished(@, "http4") ELSE AtNetwork(@)]
    /\ toWorker' = toWorker \ {m}
    /\ UNCHANGED <<page, life, tabs, toPage, asking, transfers, notFound>>

\* (The first is a mutant: a request waits for its tab for ever.)
NeverLooks(q) == FALSE
TabMissing(q) == ~Alive(req[q].tab)
Watchdog(q) ==
    /\ req[q].stage = "forwarded" /\ TabMissing(q)
    /\ req' = [req EXCEPT ![q] = AtNetwork(@)]
    /\ UNCHANGED <<page, life, tabs, toPage, asking, transfers, toWorker, notFound>>

NetworkEnds(q) ==
    /\ req[q].stage = "network"
    /\ \E result \in {"network", "error"} : req' = [req EXCEPT ![q] = Finished(@, result)]
    /\ UNCHANGED <<page, life, tabs, toPage, asking, transfers, toWorker, notFound>>

\* The browser stops a worker that has no request in hand, and starts it again
\* for the next; its ports are gone.
WorkerStops ==
    /\ life < MaxLives /\ \A q \in Request : req[q].stage \in {"new", "fetch", "done"}
    /\ life' = life + 1 /\ tabs' = [t \in Tab |-> Unknown] /\ toWorker' = {}
    /\ UNCHANGED <<page, req, toPage, asking, transfers, notFound>>

-----------------------------------------------------------------------------
(* The page's callbacks. *)

Ready(t, p) == [kind |-> IF IsOpen(p) THEN "up" ELSE "down", tab |-> t, life |-> life]

\* One callback of the session: a promise that settles answers the hellos that
\* wait for it, a session that ends fails its transfers.
SessionStep(t) == \E p \in Moves(page[t]) :
    LET failed == IF page[t].wt = "open" /\ p.wt # "open" THEN transfers \cap Of(t) ELSE {}
        owed   == IF Settled(p) /\ life \in asking[t] THEN {Ready(t, p)} ELSE {}
    IN  /\ page' = [page EXCEPT ![t] = p]
        /\ transfers' = transfers \ failed
        /\ req' = [q \in Request |-> IF q \in failed THEN Settle(q, FALSE) ELSE req[q]]
        /\ toWorker' = toWorker \cup Replies(failed, FALSE) \cup owed
        /\ asking' = [asking EXCEPT ![t] = IF Settled(p) THEN {} ELSE @]
        /\ UNCHANGED <<life, tabs, toPage, notFound>>

\* A reply goes to the port of its hello, which ends with the worker's life.
\* (The first is a mutant: replies are broadcast.)
AnyPort(n)  == n <= life
PortLive(n) == n = life

AnswerHello(t, m) ==
    /\ m.kind = "hello"
    /\ toWorker' = IF ~PortLive(m.life) THEN toWorker
                   ELSE toWorker \cup {[kind |-> "connecting", tab |-> t, life |-> life]}
                                 \cup (IF Settled(page[t]) THEN {Ready(t, page[t])} ELSE {})
    /\ asking' = IF Settled(page[t]) THEN asking ELSE [asking EXCEPT ![t] = @ \cup {m.life}]
    /\ UNCHANGED transfers

\* outcome: whether HTTP4 is tried.
Mapped(r) == r.path = "asset"
Tried(q)  == Mapped(req[q]) /\ IsOpen(page[req[q].tab])

AnswerServe(m) ==
    /\ m.kind = "serve"
    /\ IF Tried(m.req) THEN transfers' = transfers \cup {m.req} /\ UNCHANGED toWorker
       ELSE toWorker' = toWorker \cup Replies({m.req}, FALSE) /\ UNCHANGED transfers
    /\ UNCHANGED asking

\* answer: messages wait until install has run.
Answer(t) == \E m \in toPage[t] :
    /\ page[t].script = "installed"
    /\ AnswerHello(t, m) \/ AnswerServe(m)
    /\ toPage' = [toPage EXCEPT ![t] = @ \ {m}]
    /\ UNCHANGED <<page, life, tabs, req, notFound>>

\* Http4.fetch, called by the page once its handle is ready.
Ineligible(r) == r.path = "bypass"
PageFetch(q) ==
    LET t == req[q].tab
    IN  /\ req[q].stage = "new" /\ page[t].script = "installed" /\ Settled(page[t])
        /\ IF Tried(q) /\ ~Ineligible(req[q]) THEN
                            /\ req' = [req EXCEPT ![q].stage = "fetch"]
                            /\ transfers' = transfers \cup {q}
           ELSE req' = [req EXCEPT ![q] = Intercepted(@)] /\ UNCHANGED transfers
        /\ UNCHANGED <<page, life, tabs, toPage, asking, toWorker, notFound>>

\* abortable: the caller is told, the transfer runs on.
Abort(q) ==
    /\ req[q].stage = "fetch"
    /\ req' = [req EXCEPT ![q] = Finished(@, "aborted")]
    /\ UNCHANGED <<page, life, tabs, toPage, asking, transfers, toWorker, notFound>>

\* The server's NOT_FOUND is an answer; any other failure is for the network.
\* (The first is a mutant: every error is a failure.)
BodyOnly(end)      == end = "body"
Authoritative(end) == end \in {"body", "not found"}

TransferEnds(q) == \E end \in {"body", "not found", "failed"} :
    /\ q \in transfers /\ transfers' = transfers \ {q}
    /\ req' = [req EXCEPT ![q] = Settle(q, Authoritative(end))]
    /\ toWorker' = toWorker \cup Replies({q}, Authoritative(end))
    /\ notFound' = IF end = "not found" THEN notFound \cup {q} ELSE notFound
    /\ UNCHANGED <<page, life, tabs, toPage, asking>>

TabCloses(t) ==
    /\ Alive(t) /\ page' = [page EXCEPT ![t] = Gone(@)]
    /\ toPage' = [toPage EXCEPT ![t] = {}] /\ asking' = [asking EXCEPT ![t] = {}]
    /\ transfers' = transfers \ Of(t)
    /\ req' = [q \in Request |-> IF q \in Of(t) /\ req[q].stage = "fetch"
                                 THEN Finished(req[q], "aborted") ELSE req[q]]
    /\ UNCHANGED <<life, tabs, toWorker, notFound>>

-----------------------------------------------------------------------------
Next ==
    \/ \E q \in Request : \/ FetchEvent(q) \/ Find(q) \/ ReadyTimeout(q) \/ Watchdog(q)
                          \/ NetworkEnds(q) \/ PageFetch(q) \/ Abort(q) \/ TransferEnds(q)
    \/ \E t \in Tab : AckTimeout(t) \/ SessionStep(t) \/ Answer(t) \/ TabCloses(t)
    \/ \E m \in toWorker : HearHello(m) \/ HearServe(m)
    \/ WorkerStops

Spec == Init /\ [][Next]_vars

\* Timers fire, the network answers or fails, a page that carries the script
\* handles its messages, and a transfer ends.  Neither the handshake nor the
\* configuration need ever come, nor need a page load the script.
Fairness ==
    /\ \A q \in Request :
          /\ WF_vars(Find(q)) /\ WF_vars(ReadyTimeout(q)) /\ WF_vars(Watchdog(q))
          /\ WF_vars(NetworkEnds(q)) /\ WF_vars(TransferEnds(q))
    /\ \A t \in Tab : WF_vars(AckTimeout(t)) /\ WF_vars(Answer(t))
    /\ WF_vars(\E m \in toWorker : HearHello(m) \/ HearServe(m))

FairSpec == Spec /\ Fairness

-----------------------------------------------------------------------------
(* Properties. *)

\* Every variable holds what the code's types allow; a tab's TabState is the
\* answer to a hello.
TypeOK ==
    /\ page \in [Tab -> PageState] /\ life \in 1..MaxLives /\ tabs \in [Tab -> TabState]
    /\ req \in [Request -> RequestState] /\ transfers \subseteq Request
    /\ toWorker \subseteq HelloReply \cup ServeReply /\ notFound \subseteq Request
    /\ \A t \in Tab : /\ asking[t] \subseteq 1..MaxLives
                      /\ toPage[t] \subseteq {Hello(n) : n \in 1..MaxLives}
                                        \cup {Serve(q) : q \in Of(t)}
                      /\ ~tabs[t].hello => tabs[t] = Unknown

\* A request has one outcome: the network is asked at most once, and never for
\* what HTTP4 served or, while the tab lives, the server has answered NOT_FOUND,
\* whatever reply comes after the worker has given the tab up.
OneOutcome == \A q \in Request :
    /\ req[q].asked <= 1
    /\ req[q].result = "http4" => req[q].asked = 0
    /\ q \in notFound /\ Alive(req[q].tab) => req[q].asked = 0

\* "If it connects after all, don't leave the session open unused": a session
\* that the library tried to open is open only for a handle that uses it.
NoSessionLeaked == \A t \in Tab :
    page[t].tried /\ page[t].wt = "open" => page[t].client /\ Settled(page[t])

\* A life of the worker says hello to a tab once, though the requests of the tab
\* find it at the same time.
OneHello == \A t \in Tab :
    ~(/\ Hello(life) \in toPage[t]
      /\ \/ life \in asking[t] \/ tabs[t].acked = "yes" \/ tabs[t].info # "none"
         \/ \E m \in toWorker : m \in HelloReply /\ m.tab = t)

\* Once a tab has told of an open session, no request for one of its assets is
\* sent to the network unasked, whoever gave up before.
ReadyIsHonored ==
    [][\A q \in Request :
         LET t == req[q].tab
         IN  /\ req[q].stage \in {"finding", "acking", "waiting"}
             /\ tabs[t].info = "up" /\ req[q].path = "asset" /\ Alive(t)
             => req'[q].stage # "network"]_vars

\* Every request is answered: by HTTP4, by the network, or with an error.
EveryRequestAnswered ==
    \A q \in Request : req[q].stage # "new" ~> req[q].stage = "done"
=============================================================================
