---------------------------- MODULE BridgeProofs ----------------------------
(***************************************************************************)
(* Whatever the number of tabs, requests and lives of the worker, no tab   *)
(* leaks a session, a request has one outcome, and a life of the worker    *)
(* greets a tab once and honours its answer.                               *)
(*                                                                         *)
(* PagesOK is about the pages alone: a page changes only by SessionStep,   *)
(* which makes one of its Moves, and by TabCloses.  BridgeInv adds where   *)
(* each request may be (RequestOK: one trace of it at a time, a message, a *)
(* transfer or a reply) and what is left of each hello (HelloOK).  Each    *)
(* action has a lemma; RequestFrame and HelloFrame are for the requests    *)
(* and the tabs that the action does not touch.                            *)
(***************************************************************************)
EXTENDS Bridge, TLAPS

\* A page opens nothing before its script has loaded, and one that tried to connect
\* has left the states from which it could try again, so a handshake that ends late
\* finds the promise settled.
PageOK(p) ==
    /\ p \in PageState
    /\ p.script = "loading" => p.opened = "not yet"
    /\ p.tried => p.opened \in {"connecting", "settled"}
    /\ p.tried /\ p.wt = "open" => p.client /\ Settled(p)

PagesOK == page \in [Tab -> PageState] /\ \A t \in Tab : PageOK(page[t])

-----------------------------------------------------------------------------
(* The operators of PageSession. *)

\* Opening without a session (a failure, the timeout, a disabled page) keeps a page
\* that has no open session of its own: openSession's catch.
LEMMA WithoutOK ==
    ASSUME NEW p \in PageState, p.script # "loading", p.tried => p.wt # "open"
    PROVE  PageOK(Without(p))
BY DEF PageOK, PageState, Without, Settled

\* Http4Client.connect leaves a promise that is settled exactly when its
\* WebTransport is, and the handle has the session if it opened.
LEMMA ConnectOK ==
    ASSUME NEW p \in PageState, p.script # "loading"
    PROVE  PageOK(Connect(p))
<1> DEFINE wt == IF p.inline THEN p.wt ELSE "connecting"
           c  == wt \in {"open", "closed"}
           q  == Connect(p)
<1>1. wt \in {"none", "connecting", "open", "failed", "closed"}
  BY DEF PageState
<1>2. q = [p EXCEPT !.tried = TRUE, !.wt = wt,
                    !.opened = IF wt = "connecting" THEN "connecting" ELSE "settled",
                    !.client = c]
  BY DEF Connect
<1>3. c \in BOOLEAN /\ (wt = "open" => c)
  OBVIOUS
<1> HIDE DEF wt, c, q
<1>4. /\ q \in PageState /\ q.client = c /\ q.wt = wt /\ q.script = p.script
      /\ q.opened = IF wt = "connecting" THEN "connecting" ELSE "settled"
  BY <1>1, <1>2, <1>3 DEF PageState
<1>5. PageOK(q)
  BY <1>1, <1>3, <1>4 DEF PageOK, Settled
<1> QED BY <1>5 DEF q

\* Every callback of a session keeps PageOK: install, the configuration, the
\* handshake, the connect timeout and the end of the session, in any order.
LEMMA MovesOK ==
    ASSUME NEW p, PageOK(p), NEW q \in Moves(p)
    PROVE  PageOK(q)
<1>1. CASE q \in Install(p)
  <2>1. p.script = "loading" /\ ~p.tried /\ p \in PageState
    BY <1>1 DEF Install, PageOK
  <2> DEFINE r == [p EXCEPT !.script = "installed"]
  <2>2. r \in PageState /\ r.script = "installed" /\ ~r.tried
    BY <2>1 DEF PageState
  <2>3. CASE q = [p EXCEPT !.script = "bare"]
    BY <2>1, <2>3 DEF PageOK, PageState, Settled
  <2>4. CASE q = Disabled(r)
    <3> DEFINE d == [r EXCEPT !.disabled = TRUE]
    <3>1. d \in PageState /\ d.script = "installed" /\ ~d.tried
      BY <2>2 DEF PageState
    <3> HIDE DEF d
    <3>2. PageOK(Without(d))
      BY <3>1, WithoutOK
    <3> QED BY <2>4, <3>2 DEF Disabled, d
  <2>5. CASE q = [r EXCEPT !.opened = "config"]
    BY <2>2, <2>5 DEF PageOK, PageState, Settled
  <2>6. CASE q = Connect(r)
    <3> HIDE DEF r
    <3> QED BY <2>2, <2>6, ConnectOK
  <2> QED BY <1>1, <2>1, <2>3, <2>4, <2>5, <2>6 DEF Install
<1>2. CASE q \in Configured(p)
  <2>1. p.opened = "config" /\ p.script # "loading" /\ ~p.tried /\ p \in PageState
    BY <1>2 DEF Configured, PageOK
  <2>2. CASE q = Without(p)
    BY <2>1, <2>2, WithoutOK
  <2>3. CASE q = Connect(p)
    BY <2>1, <2>3, ConnectOK
  <2> QED BY <1>2, <2>1, <2>2, <2>3 DEF Configured
<1>3. CASE q \in Handshake(p)
  <2>1. p.wt = "connecting"
    BY <1>3 DEF Handshake
  <2>2. CASE q = Arrived(p)
    BY <2>1, <2>2 DEF Arrived, PageOK, PageState, Settled
  <2>3. CASE q = Refused(p)
    <3> DEFINE f == [p EXCEPT !.wt = "failed"]
    <3>1. /\ f \in PageState /\ f.wt = "failed"
          /\ p.opened = "connecting" => f.script # "loading"
      BY DEF PageOK, PageState
    <3>2. PageOK(f)
      BY DEF PageOK, PageState, Settled
    <3>3. q = IF p.opened = "connecting" THEN Without(f) ELSE f
      BY <2>3 DEF Refused
    <3> HIDE DEF f
    <3>4. CASE p.opened = "connecting"
      BY <3>1, <3>3, <3>4, WithoutOK
    <3> QED BY <3>2, <3>3, <3>4
  <2> QED BY <1>3, <2>1, <2>2, <2>3 DEF Handshake
<1>4. CASE q \in TimedOut(p)
  <2>1. p.opened = "connecting" /\ q = Without(p)
    BY <1>4 DEF TimedOut
  <2>2. p.script # "loading" /\ (p.tried => p.wt # "open")
    BY <2>1 DEF PageOK, Settled
  <2> QED BY <2>1, <2>2, WithoutOK DEF PageOK
<1>5. CASE q \in Ended(p)
  BY <1>5 DEF Ended, PageOK, PageState, Settled
<1> QED BY <1>1, <1>2, <1>3, <1>4, <1>5 DEF Moves

\* No callback of a session closes its tab, or runs in a closed one.
LEMMA MovesAlive ==
    ASSUME NEW p, PageOK(p), NEW q \in Moves(p)
    PROVE  p.script # "gone" /\ q.script # "gone"
<1>1. p \in PageState /\ p.script # "gone"
  BY DEF Moves, PageOK
<1>2. \A s \in PageState : /\ Without(s).script = s.script
                           /\ Connect(s).script = s.script
                           /\ Disabled(s).script = s.script
                           /\ Arrived(s).script = s.script
                           /\ Refused(s).script = s.script
  BY DEF PageState, Without, Connect, Disabled, Arrived, Refused
<1>3. [p EXCEPT !.script = "installed"] \in PageState
  BY <1>1 DEF PageState
<1>4. CASE q \in Install(p)
  BY <1>1, <1>2, <1>3, <1>4 DEF Install, PageState
<1>5. CASE q \in Configured(p) \cup Handshake(p) \cup TimedOut(p) \cup Ended(p)
  BY <1>1, <1>2, <1>5 DEF Configured, Handshake, TimedOut, Ended, PageState
<1> QED BY <1>1, <1>4, <1>5 DEF Moves

\* Closing a tab leaves no open session.
LEMMA GoneOK ==
    ASSUME NEW p, PageOK(p)
    PROVE  PageOK(Gone(p))
BY DEF Gone, PageOK, PageState, Settled

-----------------------------------------------------------------------------
(* The specification. *)

LEMMA PagesInit == Init => PagesOK
<1>1. \A inline \in BOOLEAN : PageOK(Loading(inline))
  BY DEF PageOK, PageState, Loading
<1>2. \A p : PageOK(p) => p \in PageState
  BY DEF PageOK
<1> QED BY <1>1, <1>2 DEF Init, PageInit, PagesOK

\* A tab's page may change to one that is OK.
LEMMA PageChanged ==
    ASSUME PagesOK, NEW t \in Tab, NEW p, PageOK(p), page' = [page EXCEPT ![t] = p]
    PROVE  PagesOK'
<1>1. p \in PageState
  BY DEF PageOK
<1>2. page' \in [Tab -> PageState]
  BY <1>1 DEF PagesOK
<1>3. \A u \in Tab : page'[u] = IF u = t THEN p ELSE page[u]
  BY DEF PagesOK
<1>4. \A u \in Tab : PageOK(page'[u])
  BY <1>3 DEF PagesOK
<1> QED BY <1>2, <1>4 DEF PagesOK

LEMMA PagesStep == PagesOK /\ [Next]_vars => PagesOK'
<1> SUFFICES ASSUME PagesOK, [Next]_vars PROVE PagesOK'
  OBVIOUS
<1>1. ASSUME NEW t \in Tab, SessionStep(t) PROVE PagesOK'
  <2>1. PICK p \in Moves(page[t]) : page' = [page EXCEPT ![t] = p]
    BY <1>1 DEF SessionStep
  <2>2. PageOK(p)
    BY <2>1, MovesOK DEF PagesOK
  <2> QED BY <2>1, <2>2, PageChanged
<1>2. ASSUME NEW t \in Tab, TabCloses(t) PROVE PagesOK'
  <2>1. page' = [page EXCEPT ![t] = Gone(page[t])]
    BY <1>2 DEF TabCloses, PagesOK
  <2>2. PageOK(Gone(page[t]))
    BY GoneOK DEF PagesOK
  <2> QED BY <2>1, <2>2, PageChanged
<1>3. ASSUME UNCHANGED page PROVE PagesOK'
  BY <1>3 DEF PagesOK
<1>4. ASSUME NEW q \in Request,
             \/ FetchEvent(q) \/ Find(q) \/ ReadyTimeout(q) \/ Watchdog(q)
             \/ NetworkEnds(q) \/ PageFetch(q) \/ Abort(q) \/ TransferEnds(q)
      PROVE  UNCHANGED page
  BY <1>4 DEF FetchEvent, Find, ReadyTimeout, Watchdog, NetworkEnds, PageFetch, Abort,
              TransferEnds
<1>5. ASSUME NEW t \in Tab, AckTimeout(t) \/ Answer(t) PROVE UNCHANGED page
  BY <1>5 DEF AckTimeout, Answer
<1>6. ASSUME NEW m \in toWorker, HearHello(m) \/ HearServe(m) PROVE UNCHANGED page
  BY <1>6 DEF HearHello, HearServe
<1>7. WorkerStops \/ UNCHANGED vars => UNCHANGED page
  BY DEF WorkerStops, vars
<1> QED BY <1>1, <1>2, <1>3, <1>4, <1>5, <1>6, <1>7 DEF Next

\* Every page keeps PageOK through every step of the worker and of the pages.
THEOREM PagesInvariant == Spec => []PagesOK
BY PagesInit, PagesStep, PTL DEF Spec

\* openSession: a session that the library tried to open, and that is open, is the
\* one its handle uses, however the timeout and the handshake race.
THEOREM NoSessionLeakedHolds == Spec => []NoSessionLeaked
<1>1. PagesOK => NoSessionLeaked
  BY DEF PagesOK, PageOK, NoSessionLeaked
<1> QED BY <1>1, PagesInvariant, PTL

-----------------------------------------------------------------------------
(* What holds of a request, and of a tab's hello. *)

Reply(kind, q) == [kind |-> kind, req |-> q]
Told(t)        == \E m \in toWorker : m \in HelloReply /\ m.tab = t

\* Where a request may be.  Until it is answered, one that was forwarded is a
\* message to its tab, a transfer of it, or one reply on its port: never two of them,
\* so no second answer can follow the first.
RequestOK(q) ==
    LET r == req[q]
        t == r.tab
    IN  /\ r.stage = "done" <=> r.result # "none"
        /\ r.asked = IF r.stage = "network" \/ r.result \in {"network", "error"} THEN 1 ELSE 0
        /\ q \in transfers => /\ Alive(t)
                              /\ r.stage \in {"fetch", "forwarded"} \/ r.result = "aborted"
        /\ q \in notFound => q \notin transfers
        /\ r.stage \in {"acking", "waiting"} => tabs[t].hello /\ tabs[t].info = "none"
        /\ Alive(t) =>
             /\ Serve(q) \in toPage[t] => r.stage = "forwarded" /\ q \notin transfers \cup notFound
             /\ \A kind \in {"served", "unserved"} : Reply(kind, q) \in toWorker =>
                  /\ r.stage = "forwarded" /\ q \notin transfers /\ Serve(q) \notin toPage[t]
                  /\ kind = "unserved" => /\ q \notin notFound
                                          /\ Reply("served", q) \notin toWorker
             /\ q \in notFound => r.stage = "forwarded" \/ r.result \in {"http4", "aborted"}

\* A tab that was not greeted in this life has no trace of a hello of this life.
HelloOK(t) ==
    /\ asking[t] \subseteq 1..life
    /\ \A n \in 1..MaxLives : Hello(n) \in toPage[t] => n <= life
    /\ ~tabs[t].hello => /\ tabs[t] = Unknown /\ ~Told(t)
                         /\ Hello(life) \notin toPage[t] /\ life \notin asking[t]
    /\ Hello(life) \in toPage[t] => /\ life \notin asking[t] /\ ~Told(t)
                                    /\ tabs[t].acked # "yes" /\ tabs[t].info = "none"

Messages ==
    /\ toPage \in [Tab -> SUBSET ({Hello(n) : n \in 1..MaxLives} \cup {Serve(q) : q \in Request})]
    /\ asking \in [Tab -> SUBSET (1..MaxLives)]

\* The inductive invariant.
BridgeInv ==
    /\ TypeOK /\ Messages /\ PagesOK
    /\ \A q \in Request : RequestOK(q)
    /\ \A t \in Tab : HelloOK(t)

-----------------------------------------------------------------------------
(* The operators of Bridge on a request. *)

LEMMA AtNetworkIs ==
    ASSUME NEW r \in RequestState
    PROVE  /\ AtNetwork(r) \in RequestState /\ AtNetwork(r).tab = r.tab
           /\ AtNetwork(r).stage = "network" /\ AtNetwork(r).asked = r.asked + 1
           /\ AtNetwork(r).result = r.result
<1>1. r.asked + 1 \in Nat
  BY DEF RequestState
<1>2. AtNetwork(r) = [r EXCEPT !.stage = "network", !.asked = r.asked + 1]
  BY DEF AtNetwork
<1> DEFINE n == r.asked + 1
<1> HIDE DEF n
<1>3. AtNetwork(r) = [r EXCEPT !.stage = "network", !.asked = n] /\ n \in Nat
  BY <1>1, <1>2 DEF n
<1>4. /\ AtNetwork(r) \in RequestState /\ AtNetwork(r).tab = r.tab
      /\ AtNetwork(r).stage = "network" /\ AtNetwork(r).asked = n
      /\ AtNetwork(r).result = r.result
  BY <1>3 DEF RequestState
<1> QED BY <1>4 DEF n

LEMMA FinishedIs ==
    ASSUME NEW r \in RequestState, NEW result \in {"http4", "network", "error", "aborted"}
    PROVE  /\ Finished(r, result) \in RequestState /\ Finished(r, result).tab = r.tab
           /\ Finished(r, result).stage = "done" /\ Finished(r, result).asked = r.asked
           /\ Finished(r, result).result = result
BY DEF Finished, RequestState

\* A request in stage s, all else as before.
LEMMA StagedIs ==
    ASSUME NEW r \in RequestState,
           NEW s \in {"new", "fetch", "finding", "acking", "waiting", "forwarded", "network", "done"}
    PROVE  LET n == [r EXCEPT !.stage = s]
           IN  /\ n \in RequestState /\ n.tab = r.tab /\ n.stage = s
               /\ n.asked = r.asked /\ n.result = r.result
BY DEF RequestState

\* A request that the worker intercepts waits for its tab or is at the network.
LEMMA InterceptedIs ==
    ASSUME NEW r \in RequestState
    PROVE  LET n == Intercepted(r)
           IN  /\ n \in RequestState /\ n.tab = r.tab /\ n.result = r.result
               /\ \/ n.stage = "finding" /\ n.asked = r.asked
                  \/ n.stage = "network" /\ n.asked = r.asked + 1
BY AtNetworkIs, StagedIs DEF Intercepted

\* What becomes of a request that waits for its tab, when it goes on: an asset of a
\* tab that is up is forwarded, and none waits for a tab that has told.
LEMMA ResumedIs ==
    ASSUME NEW r \in RequestState, NEW tab \in TabState
    PROVE  LET n == Resumed(r, tab)
           IN  /\ n \in RequestState /\ n.tab = r.tab /\ n.result = r.result
               /\ \/ n.stage \in {"acking", "waiting", "forwarded"} /\ n.asked = r.asked
                  \/ n.stage = "network" /\ n.asked = r.asked + 1
               /\ n.stage \in {"acking", "waiting"} => tab.info = "none"
               /\ tab.info = "up" /\ r.path = "asset" => n.stage = "forwarded"
<1>1. tab.acked \in {"open", "yes", "no"} /\ tab.info \in {"none", "up", "down"}
  BY DEF TabState
<1>2. CASE tab.info # "none"
  BY <1>2, AtNetworkIs, StagedIs DEF Resumed, Decided
<1>3. CASE tab.info = "none"
  BY <1>1, <1>3, AtNetworkIs, StagedIs DEF Resumed
<1> QED BY <1>2, <1>3

\* The messages of different kinds are different.
LEMMA MessageIs ==
    /\ \A q, p : Serve(q) = Serve(p) => q = p
    /\ \A q, n : Serve(q) # Hello(n)
    /\ \A n, m : Hello(n) = Hello(m) => n = m
    /\ \A k, q, l, p : Reply(k, q) = Reply(l, p) => k = l /\ q = p
    /\ \A k, q : k \in {"served", "unserved"} => Reply(k, q) \notin HelloReply
    /\ \A q : Serve(q).kind = "serve" /\ Serve(q).req = q
    /\ \A n : Hello(n).kind = "hello" /\ Hello(n).life = n
<1>1. \A k, q : Reply(k, q).kind = k /\ Reply(k, q).req = q
  BY DEF Reply
<1>2. \A q : Serve(q).kind = "serve" /\ Serve(q).req = q
  BY DEF Serve
<1>3. \A n : Hello(n).kind = "hello" /\ Hello(n).life = n
  BY DEF Hello
<1>4. \A m \in HelloReply : m.kind \notin {"served", "unserved"}
  BY DEF HelloReply
<1> QED BY <1>1, <1>2, <1>3, <1>4

\* The replies for a set of requests: one for each that was forwarded.
LEMMA RepliesIs ==
    ASSUME NEW qs \in SUBSET Request, NEW ok
    PROVE  /\ Replies(qs, ok) \subseteq ServeReply
           /\ \A k, q : Reply(k, q) \in Replies(qs, ok) <=>
                /\ k = (IF ok THEN "served" ELSE "unserved")
                /\ q \in qs /\ req[q].stage = "forwarded"
BY DEF Replies, ServeReply, Reply

-----------------------------------------------------------------------------
(* What a step must show of a request or a tab that it does not touch. *)

\* The messages are constants: only what holds them changes.
LEMMA RequestNext ==
    ASSUME NEW q \in Request, NEW r, NEW t, r = req'[q], t = r.tab,
           r.stage = "done" <=> r.result # "none",
           r.asked = IF r.stage = "network" \/ r.result \in {"network", "error"} THEN 1 ELSE 0,
           q \in transfers' => /\ page'[t].script # "gone"
                               /\ r.stage \in {"fetch", "forwarded"} \/ r.result = "aborted",
           q \in notFound' => q \notin transfers',
           r.stage \in {"acking", "waiting"} => tabs'[t].hello /\ tabs'[t].info = "none",
           page'[t].script # "gone" =>
             /\ Serve(q) \in toPage'[t] =>
                  r.stage = "forwarded" /\ q \notin transfers' \cup notFound'
             /\ \A kind \in {"served", "unserved"} : Reply(kind, q) \in toWorker' =>
                  /\ r.stage = "forwarded" /\ q \notin transfers' /\ Serve(q) \notin toPage'[t]
                  /\ kind = "unserved" => /\ q \notin notFound'
                                          /\ Reply("served", q) \notin toWorker'
             /\ q \in notFound' => r.stage = "forwarded" \/ r.result \in {"http4", "aborted"}
    PROVE  RequestOK(q)'
BY DEF RequestOK, Alive, Serve, Reply

LEMMA RequestFrame ==
    ASSUME NEW q \in Request, RequestOK(q), req'[q] = req[q], NEW t, t = req[q].tab,
           q \in transfers' => q \in transfers /\ page'[t].script # "gone",
           q \in notFound' => q \in notFound,
           req[q].stage \in {"acking", "waiting"} => tabs'[t].hello /\ tabs'[t].info = "none",
           page'[t].script # "gone" =>
             /\ page[t].script # "gone"
             /\ Serve(q) \in toPage'[t] => Serve(q) \in toPage[t]
             /\ \A kind \in {"served", "unserved"} :
                  Reply(kind, q) \in toWorker' => Reply(kind, q) \in toWorker
    PROVE  RequestOK(q)'
<1> DEFINE r == req[q]
<1>1. /\ r = req'[q] /\ t = r.tab
      /\ r.stage = "done" <=> r.result # "none"
      /\ r.asked = IF r.stage = "network" \/ r.result \in {"network", "error"} THEN 1 ELSE 0
      /\ q \in transfers => r.stage \in {"fetch", "forwarded"} \/ r.result = "aborted"
      /\ q \in notFound => q \notin transfers
  BY DEF RequestOK
<1>2. page[t].script # "gone" =>
        /\ Serve(q) \in toPage[t] => r.stage = "forwarded" /\ q \notin transfers \cup notFound
        /\ \A kind \in {"served", "unserved"} : Reply(kind, q) \in toWorker =>
             /\ r.stage = "forwarded" /\ q \notin transfers /\ Serve(q) \notin toPage[t]
             /\ kind = "unserved" => q \notin notFound /\ Reply("served", q) \notin toWorker
        /\ q \in notFound => r.stage = "forwarded" \/ r.result \in {"http4", "aborted"}
  BY DEF RequestOK, Alive
<1> HIDE DEF r
<1> QED BY <1>1, <1>2, RequestNext DEF r

LEMMA HelloNext ==
    ASSUME NEW t \in Tab, NEW n, n = life', NEW told \in BOOLEAN,
           (\E m \in toWorker' : m \in HelloReply /\ m.tab = t) => told,
           asking'[t] \subseteq 1..n,
           \A i \in 1..MaxLives : Hello(i) \in toPage'[t] => i <= n,
           ~tabs'[t].hello => /\ tabs'[t] = Unknown /\ ~told
                              /\ Hello(n) \notin toPage'[t] /\ n \notin asking'[t],
           Hello(n) \in toPage'[t] => /\ n \notin asking'[t] /\ ~told
                                      /\ tabs'[t].acked # "yes" /\ tabs'[t].info = "none"
    PROVE  HelloOK(t)'
BY DEF HelloOK, Told, Hello, Unknown, HelloReply

LEMMA HelloFrame ==
    ASSUME NEW t \in Tab, HelloOK(t), life' = life, tabs'[t] = tabs[t],
           asking'[t] \subseteq asking[t],
           \A i \in 1..MaxLives : Hello(i) \in toPage'[t] => Hello(i) \in toPage[t],
           life \in 1..MaxLives,
           \A m \in HelloReply : m \in toWorker' /\ m.tab = t => m \in toWorker
    PROVE  HelloOK(t)'
<1>1. (\E m \in toWorker' : m \in HelloReply /\ m.tab = t) => Told(t)
  BY DEF Told
<1>2. Told(t) \in BOOLEAN
  BY DEF Told
<1> DEFINE told == Told(t)
<1> HIDE DEF told
<1>3. told \in BOOLEAN /\ ((\E m \in toWorker' : m \in HelloReply /\ m.tab = t) => told)
  BY <1>1, <1>2 DEF told
<1>4. /\ asking'[t] \subseteq 1..life
      /\ \A i \in 1..MaxLives : Hello(i) \in toPage'[t] => i <= life
      /\ ~tabs'[t].hello => /\ tabs'[t] = Unknown /\ ~told
                            /\ Hello(life) \notin toPage'[t] /\ life \notin asking'[t]
      /\ Hello(life) \in toPage'[t] => /\ life \notin asking'[t] /\ ~told
                                       /\ tabs'[t].acked # "yes" /\ tabs'[t].info = "none"
  BY DEF HelloOK, told
<1> QED BY <1>3, <1>4, HelloNext

-----------------------------------------------------------------------------
(* Each step keeps the invariant. *)

LEMMA InvTypes ==
    ASSUME BridgeInv
    PROVE  /\ page \in [Tab -> PageState] /\ life \in 1..MaxLives /\ tabs \in [Tab -> TabState]
           /\ req \in [Request -> RequestState] /\ transfers \subseteq Request
           /\ toWorker \subseteq HelloReply \cup ServeReply /\ notFound \subseteq Request
           /\ \A q \in Request : req[q] \in RequestState /\ req[q].tab \in Tab
           /\ \A t \in Tab : tabs[t] \in TabState
           /\ \A t \in Tab : page[t] \in PageState
BY DEF BridgeInv, TypeOK, RequestState

\* A request of a tab keeps its tab, so what was posted to the tab stays the tab's.
LEMMA TypesNext ==
    ASSUME BridgeInv, PagesOK', Messages', life' \in 1..MaxLives, tabs' \in [Tab -> TabState],
           req' \in [Request -> RequestState], \A q \in Request : req'[q].tab = req[q].tab,
           transfers' \subseteq Request, notFound' \subseteq Request,
           toWorker' \subseteq HelloReply \cup ServeReply,
           \A t \in Tab : ~tabs'[t].hello => tabs'[t] = Unknown,
           \A t \in Tab, q \in Request : Serve(q) \in toPage'[t] => req[q].tab = t
    PROVE  TypeOK'
<1>1. page' \in [Tab -> PageState]
  BY DEF PagesOK
<1>2. ASSUME NEW t \in Tab
      PROVE  /\ asking'[t] \subseteq 1..MaxLives
             /\ toPage'[t] \subseteq {Hello(n) : n \in 1..MaxLives} \cup {Serve(q) : q \in Of(t)'}
             /\ ~tabs'[t].hello => tabs'[t] = Unknown
  <2>1. /\ asking'[t] \subseteq 1..MaxLives
        /\ toPage'[t] \subseteq {Hello(n) : n \in 1..MaxLives} \cup {Serve(q) : q \in Request}
    BY DEF Messages, Hello, Serve
  <2>2. Of(t)' = {q \in Request : req[q].tab = t}
    BY DEF Of
  <2>3. ASSUME NEW m \in toPage'[t], m \notin {Hello(n) : n \in 1..MaxLives}
        PROVE  m \in {Serve(q) : q \in Of(t)'}
    <3>1. PICK q \in Request : m = Serve(q)
      BY <2>1, <2>3
    <3> QED BY <2>2, <2>3, <3>1
  <2> QED BY <2>1, <2>3
<1> QED BY <1>1, <1>2 DEF TypeOK, Unknown, Hello, Serve, RequestState, TabState, HelloReply, ServeReply

\* A step that changes one request, and may note that it gave up on its tab.
LEMMA OneRequestStep ==
    ASSUME BridgeInv, NEW q \in Request, NEW r \in RequestState, NEW t, t = req[q].tab,
           r.tab = t, req' = [req EXCEPT ![q] = r],
           UNCHANGED <<page, life, toPage, asking, transfers, notFound>>,
           toWorker' \subseteq toWorker, tabs' \in [Tab -> TabState],
           \A u \in Tab : /\ tabs'[u].hello = tabs[u].hello /\ tabs'[u].acked = tabs[u].acked
                          /\ tabs'[u].info = tabs[u].info
                          /\ ~tabs'[u].hello => tabs'[u] = Unknown,
           r.stage = "done" <=> r.result # "none",
           r.asked = IF r.stage = "network" \/ r.result \in {"network", "error"} THEN 1 ELSE 0,
           q \in transfers => r.stage \in {"fetch", "forwarded"} \/ r.result = "aborted",
           r.stage \in {"acking", "waiting"} => tabs[t].hello /\ tabs[t].info = "none",
           Alive(t) => /\ Serve(q) \in toPage[t] => r.stage = "forwarded"
                       /\ \A kind \in {"served", "unserved"} :
                            Reply(kind, q) \in toWorker' => r.stage = "forwarded"
                       /\ q \in notFound => \/ r.stage = "forwarded"
                                            \/ r.result \in {"http4", "aborted"}
    PROVE  BridgeInv'
<1>1. PagesOK' /\ Messages'
  BY DEF BridgeInv, PagesOK, PageOK, PageState, Settled, Messages, Hello, Serve
<1>2. TypeOK'
  <2>1. \A u \in Tab, p \in Request : Serve(p) \in toPage'[u] => req[p].tab = u
    BY MessageIs DEF BridgeInv, TypeOK, Of
  <2>2. req' \in [Request -> RequestState] /\ \A p \in Request : req'[p].tab = req[p].tab
    BY InvTypes
  <2> QED BY <1>1, <2>1, <2>2, InvTypes, TypesNext
<1>3. ASSUME NEW p \in Request PROVE RequestOK(p)'
  <2>1. RequestOK(p) /\ req[p].tab \in Tab
    BY InvTypes DEF BridgeInv
  <2>2. CASE p # q
    <3>1. req'[p] = req[p]
      BY <2>2, InvTypes
    <3>2. /\ tabs'[req[p].tab].info = tabs[req[p].tab].info
          /\ tabs'[req[p].tab].hello = tabs[req[p].tab].hello
          /\ p \in transfers => page[req[p].tab].script # "gone"
          /\ req[p].stage \in {"acking", "waiting"} =>
               tabs[req[p].tab].hello /\ tabs[req[p].tab].info = "none"
      BY <2>1 DEF RequestOK, Alive
    <3> QED BY <2>1, <3>1, <3>2, RequestFrame
  <2>3. CASE p = q
    <3>1. r = req'[q] /\ tabs'[t].info = tabs[t].info /\ tabs'[t].hello = tabs[t].hello
      BY <2>1, <2>3, InvTypes
    <3>2. /\ q \in transfers => page[t].script # "gone"
          /\ q \in notFound => q \notin transfers
          /\ page[t].script # "gone" =>
              /\ Serve(q) \in toPage[t] => q \notin transfers \cup notFound
              /\ \A kind \in {"served", "unserved"} : Reply(kind, q) \in toWorker =>
                   /\ q \notin transfers /\ Serve(q) \notin toPage[t]
                   /\ kind = "unserved" => q \notin notFound /\ Reply("served", q) \notin toWorker
      BY <2>1, <2>3 DEF RequestOK, Alive
    <3>3. RequestOK(q)'
      BY <3>1, <3>2, RequestNext DEF Alive
    <3> QED BY <2>3, <3>3
  <2> QED BY <2>2, <2>3
<1>4. ASSUME NEW u \in Tab PROVE HelloOK(u)'
  <2>1. HelloOK(u) /\ life \in 1..MaxLives /\ tabs[u] \in TabState
    BY InvTypes DEF BridgeInv
  <2> DEFINE told == Told(u)
  <2>2. told \in BOOLEAN /\ ((\E m \in toWorker' : m \in HelloReply /\ m.tab = u) => told)
    BY DEF Told
  <2>3. /\ asking[u] \subseteq 1..life
        /\ \A i \in 1..MaxLives : Hello(i) \in toPage[u] => i <= life
        /\ ~tabs[u].hello => /\ ~told
                             /\ Hello(life) \notin toPage[u] /\ life \notin asking[u]
        /\ Hello(life) \in toPage[u] => /\ life \notin asking[u] /\ ~told
                                        /\ tabs[u].acked # "yes" /\ tabs[u].info = "none"
    BY <2>1 DEF HelloOK
  <2> HIDE DEF told
  <2> QED BY <2>2, <2>3, HelloNext
<1> QED BY <1>1, <1>2, <1>3, <1>4 DEF BridgeInv

\* Where no other answer to a request can be under way.
LEMMA Unanswered ==
    ASSUME BridgeInv, NEW q \in Request, Alive(req[q].tab),
           req[q].stage \notin {"forwarded", "fetch"}, req[q].result = "none"
    PROVE  /\ q \notin transfers /\ q \notin notFound
           /\ Serve(q) \notin toPage[req[q].tab]
           /\ \A kind \in {"served", "unserved"} : Reply(kind, q) \notin toWorker
BY DEF BridgeInv, RequestOK

\* What a request's stage says of its result and of the network.
LEMMA StageSays ==
    ASSUME BridgeInv, NEW q \in Request
    PROVE  /\ req[q] \in RequestState /\ req[q].tab \in Tab
           /\ req[q].stage # "done" => req[q].result = "none"
           /\ req[q].stage \notin {"done", "network"} => req[q].asked = 0
           /\ req[q].stage = "network" => req[q].asked = 1
<1>1. RequestOK(q) /\ req[q] \in RequestState /\ req[q].tab \in Tab
  BY InvTypes DEF BridgeInv
<1>2. req[q].stage # "done" => req[q].result = "none"
  BY <1>1 DEF RequestOK
<1>3. req[q].asked = IF req[q].stage = "network" \/ req[q].result \in {"network", "error"} THEN 1 ELSE 0
  BY <1>1 DEF RequestOK
<1> QED BY <1>1, <1>2, <1>3

LEMMA FetchEventStep == ASSUME BridgeInv, NEW q \in Request, FetchEvent(q) PROVE BridgeInv'
<1> DEFINE r == Intercepted(req[q])
           t == req[q].tab
<1>1. /\ req[q].stage = "new" /\ Alive(t) /\ req' = [req EXCEPT ![q] = r]
      /\ UNCHANGED <<page, life, tabs, toPage, asking, transfers, toWorker, notFound>>
  BY DEF FetchEvent
<1>2. /\ req[q] \in RequestState /\ req[q].result = "none" /\ req[q].asked = 0
  BY <1>1, StageSays
<1>3. /\ r \in RequestState /\ r.tab = t /\ r.result = "none"
      /\ \/ r.stage = "finding" /\ r.asked = 0
         \/ r.stage = "network" /\ r.asked = 1
  BY <1>2, InterceptedIs
<1>4. /\ q \notin transfers /\ q \notin notFound /\ Serve(q) \notin toPage[t]
      /\ \A kind \in {"served", "unserved"} : Reply(kind, q) \notin toWorker
  BY <1>1, <1>2, Unanswered
<1>5. tabs \in [Tab -> TabState] /\ \A u \in Tab : ~tabs[u].hello => tabs[u] = Unknown
  BY DEF BridgeInv, TypeOK
<1> HIDE DEF r, t
<1>6. t = req[q].tab
  BY DEF t
<1> QED BY <1>1, <1>3, <1>4, <1>5, <1>6, OneRequestStep

LEMMA AbortStep == ASSUME BridgeInv, NEW q \in Request, Abort(q) PROVE BridgeInv'
<1> DEFINE r == Finished(req[q], "aborted")
           t == req[q].tab
<1>1. /\ req[q].stage = "fetch" /\ req' = [req EXCEPT ![q] = r]
      /\ UNCHANGED <<page, life, tabs, toPage, asking, transfers, toWorker, notFound>>
  BY DEF Abort
<1>2. req[q] \in RequestState /\ req[q].asked = 0 /\ RequestOK(q)
  BY <1>1, StageSays DEF BridgeInv
<1>3. /\ r \in RequestState /\ r.tab = t /\ r.result = "aborted" /\ r.stage = "done" /\ r.asked = 0
  BY <1>2, FinishedIs
<1>4. Alive(t) => /\ Serve(q) \notin toPage[t]
                  /\ \A kind \in {"served", "unserved"} : Reply(kind, q) \notin toWorker
  BY <1>1, <1>2 DEF RequestOK
<1>5. tabs \in [Tab -> TabState] /\ \A u \in Tab : ~tabs[u].hello => tabs[u] = Unknown
  BY DEF BridgeInv, TypeOK
<1> HIDE DEF r, t
<1>6. t = req[q].tab
  BY DEF t
<1> QED BY <1>1, <1>3, <1>4, <1>5, <1>6, OneRequestStep

LEMMA NetworkEndsStep == ASSUME BridgeInv, NEW q \in Request, NetworkEnds(q) PROVE BridgeInv'
<1> DEFINE t == req[q].tab
<1>1. PICK result \in {"network", "error"} : req' = [req EXCEPT ![q] = Finished(req[q], result)]
  BY DEF NetworkEnds
<1> DEFINE r == Finished(req[q], result)
<1>2. /\ req[q].stage = "network" /\ req' = [req EXCEPT ![q] = r]
      /\ UNCHANGED <<page, life, tabs, toPage, asking, transfers, toWorker, notFound>>
  BY <1>1 DEF NetworkEnds
<1>3. req[q] \in RequestState /\ req[q].asked = 1 /\ RequestOK(q) /\ req[q].result = "none"
  BY <1>2, StageSays DEF BridgeInv
<1>4. /\ r \in RequestState /\ r.tab = t /\ r.result \in {"network", "error"} /\ r.stage = "done"
      /\ r.asked = 1
  BY <1>3, FinishedIs
<1>5. /\ q \notin transfers
      /\ Alive(t) => /\ Serve(q) \notin toPage[t] /\ q \notin notFound
                     /\ \A kind \in {"served", "unserved"} : Reply(kind, q) \notin toWorker
  BY <1>2, <1>3 DEF RequestOK
<1>6. tabs \in [Tab -> TabState] /\ \A u \in Tab : ~tabs[u].hello => tabs[u] = Unknown
  BY DEF BridgeInv, TypeOK
<1> HIDE DEF r, t
<1>7. t = req[q].tab
  BY DEF t
<1> QED BY <1>2, <1>4, <1>5, <1>6, <1>7, OneRequestStep

LEMMA WatchdogStep == ASSUME BridgeInv, NEW q \in Request, Watchdog(q) PROVE BridgeInv'
<1> DEFINE r == AtNetwork(req[q])
           t == req[q].tab
<1>1. /\ req[q].stage = "forwarded" /\ ~Alive(t) /\ req' = [req EXCEPT ![q] = r]
      /\ UNCHANGED <<page, life, tabs, toPage, asking, transfers, toWorker, notFound>>
  BY DEF Watchdog, TabMissing
<1>2. /\ req[q] \in RequestState /\ req[q].asked = 0 /\ RequestOK(q) /\ req[q].result = "none"
  BY <1>1, StageSays DEF BridgeInv
<1>3. /\ r \in RequestState /\ r.tab = t /\ r.result = "none" /\ r.stage = "network" /\ r.asked = 1
  BY <1>2, AtNetworkIs
<1>4. q \notin transfers
  BY <1>1, <1>2 DEF RequestOK
<1>5. tabs \in [Tab -> TabState] /\ \A u \in Tab : ~tabs[u].hello => tabs[u] = Unknown
  BY DEF BridgeInv, TypeOK
<1> HIDE DEF r, t
<1>6. t = req[q].tab
  BY DEF t
<1> QED BY <1>1, <1>3, <1>4, <1>5, <1>6, OneRequestStep

LEMMA ReadyTimeoutStep == ASSUME BridgeInv, NEW q \in Request, ReadyTimeout(q) PROVE BridgeInv'
<1> DEFINE r == AtNetwork(req[q])
           t == req[q].tab
<1>1. /\ req[q].stage = "waiting" /\ req' = [req EXCEPT ![q] = r]
      /\ tabs' = [tabs EXCEPT ![t] = [tabs[t] EXCEPT !.gaveUp = TRUE]]
      /\ UNCHANGED <<page, life, toPage, asking, transfers, toWorker, notFound>>
  BY DEF ReadyTimeout
<1>2. req[q] \in RequestState /\ req[q].asked = 0 /\ req[q].result = "none" /\ t \in Tab
  BY <1>1, StageSays
<1>3. /\ r \in RequestState /\ r.tab = t /\ r.result = "none" /\ r.stage = "network" /\ r.asked = 1
  BY <1>2, AtNetworkIs
<1>4. /\ q \notin transfers /\ tabs[t].hello
      /\ Alive(t) => /\ q \notin notFound /\ Serve(q) \notin toPage[t]
                     /\ \A kind \in {"served", "unserved"} : Reply(kind, q) \notin toWorker
  BY <1>1, <1>2, Unanswered DEF BridgeInv, RequestOK
<1>5. tabs \in [Tab -> TabState] /\ \A u \in Tab : ~tabs[u].hello => tabs[u] = Unknown
  BY DEF BridgeInv, TypeOK
<1> HIDE DEF r, t
<1>6. t = req[q].tab
  BY DEF t
<1>7. /\ tabs' \in [Tab -> TabState]
      /\ \A u \in Tab : /\ tabs'[u].hello = tabs[u].hello /\ tabs'[u].acked = tabs[u].acked
                        /\ tabs'[u].info = tabs[u].info
                        /\ ~tabs'[u].hello => tabs'[u] = Unknown
  BY <1>1, <1>2, <1>4, <1>5 DEF TabState
<1> QED BY <1>1, <1>3, <1>4, <1>6, <1>7, OneRequestStep

LEMMA HearServeStep == ASSUME BridgeInv, NEW m \in toWorker, HearServe(m) PROVE BridgeInv'
<1> DEFINE q == m.req
           t == req[q].tab
           r == IF ~Listening(q) THEN req[q]
                ELSE IF m.kind = "served" THEN Finished(req[q], "http4") ELSE AtNetwork(req[q])
<1>1. m.kind \in {"served", "unserved"} /\ toWorker' = toWorker \ {m}
  BY DEF HearServe
<1>2. m \in ServeReply /\ q \in Request /\ m = Reply(m.kind, q)
  BY <1>1, InvTypes DEF HelloReply, ServeReply, Reply
<1>3. /\ req' = [req EXCEPT ![q] = r]
      /\ UNCHANGED <<page, life, tabs, toPage, asking, transfers, notFound>>
  BY DEF HearServe
<1>4. tabs \in [Tab -> TabState] /\ \A u \in Tab : ~tabs[u].hello => tabs[u] = Unknown
  BY DEF BridgeInv, TypeOK
<1>5. /\ req[q] \in RequestState /\ RequestOK(q)
      /\ req[q].stage = "forwarded" => req[q].asked = 0 /\ req[q].result = "none"
  BY <1>2, StageSays DEF BridgeInv
\* The reply is the only trace of its request.
<1>6. Alive(t) => /\ req[q].stage = "forwarded" /\ q \notin transfers /\ Serve(q) \notin toPage[t]
                  /\ \A kind \in {"served", "unserved"} : Reply(kind, q) \notin toWorker'
                  /\ m.kind = "unserved" => q \notin notFound
  BY <1>1, <1>2, <1>5, MessageIs DEF RequestOK
<1>7. req[q].stage = "forwarded" => (q \in transfers => Alive(t))
  BY <1>5 DEF RequestOK
<1>8. CASE ~Listening(q)
  <2>1. r = req[q] /\ req[q].stage # "forwarded"
    BY <1>8 DEF Listening
  <2> HIDE DEF r, t, q
  <2>2. t = req[q].tab
    BY DEF t
  <2> QED BY <1>2, <1>3, <1>1, <1>4, <1>5, <1>6, <2>1, <2>2, OneRequestStep DEF RequestOK
<1>9. CASE Listening(q)
  <2>1. /\ r \in RequestState /\ r.tab = t /\ req[q].stage = "forwarded"
        /\ \/ r.stage = "done" /\ r.result = "http4" /\ r.asked = 0
           \/ r.stage = "network" /\ r.result = "none" /\ r.asked = 1 /\ m.kind = "unserved"
    BY <1>1, <1>5, <1>9, AtNetworkIs, FinishedIs DEF Listening
  <2> HIDE DEF r, t, q
  <2>2. t = req[q].tab
    BY DEF t
  <2> QED BY <1>2, <1>3, <1>1, <1>4, <1>6, <1>7, <2>1, <2>2, OneRequestStep
<1> QED BY <1>8, <1>9

\* What Resume does to the requests and the messages of the tab.
LEMMA ResumeIs ==
    ASSUME BridgeInv, NEW t \in Tab, NEW qs \in SUBSET Of(t), NEW tab \in TabState,
           \A q \in qs : req[q].stage \in {"finding", "acking", "waiting"},
           Resume(t, qs, tab)
    PROVE  /\ tabs' = [tabs EXCEPT ![t] = tab]
           /\ req' \in [Request -> RequestState]
           /\ \A q \in Request : q \notin qs => req'[q] = req[q]
           /\ \A q \in qs : req'[q] = Resumed(req[q], tab)
           /\ toPage' \in [Tab -> SUBSET ({Hello(n) : n \in 1..MaxLives} \cup {Serve(q) : q \in Request})]
           /\ \A u \in Tab : u # t => toPage'[u] = toPage[u]
           /\ \A q \in Request : Serve(q) \in toPage'[t] <=>
                \/ Serve(q) \in toPage[t]
                \/ q \in qs /\ req'[q].stage = "forwarded"
           /\ \A n \in 1..MaxLives : Hello(n) \in toPage'[t] <=>
                \/ Hello(n) \in toPage[t]
                \/ n = life /\ Greets(t, tab)
<1> DEFINE next == [q \in Request |-> IF q \in qs THEN Resumed(req[q], tab) ELSE req[q]]
           posted == {Serve(q) : q \in {p \in qs : next[p].stage = "forwarded"}}
           hello  == IF Greets(t, tab) THEN {Hello(life)} ELSE {}
<1>1. /\ tabs' = [tabs EXCEPT ![t] = tab] /\ req' = next
      /\ toPage' = [toPage EXCEPT ![t] = toPage[t] \cup posted \cup hello]
  BY DEF Resume
<1>2. qs \subseteq Request /\ life \in 1..MaxLives
  BY InvTypes DEF Of
<1>3. \A q \in Request : next[q] \in RequestState
  BY <1>2, InvTypes, ResumedIs
<1>4. req' \in [Request -> RequestState]
  BY <1>1, <1>3
<1>5. /\ \A q \in Request : q \notin qs => req'[q] = req[q]
      /\ \A q \in qs : req'[q] = Resumed(req[q], tab)
  BY <1>1, <1>2
<1>6. toPage \in [Tab -> SUBSET ({Hello(n) : n \in 1..MaxLives} \cup {Serve(q) : q \in Request})]
  BY DEF BridgeInv, Messages
<1>7. /\ posted \subseteq {Serve(q) : q \in Request}
      /\ hello \subseteq {Hello(n) : n \in 1..MaxLives}
  BY <1>2
<1>8. /\ \A q \in Request : Serve(q) \in posted <=> q \in qs /\ req'[q].stage = "forwarded"
      /\ \A n : Hello(n) \notin posted
      /\ \A q : Serve(q) \notin hello
      /\ \A n \in 1..MaxLives : Hello(n) \in hello <=> n = life /\ Greets(t, tab)
  BY <1>1, <1>2, MessageIs
<1> HIDE DEF posted, hello
<1> QED BY <1>1, <1>4, <1>5, <1>6, <1>7, <1>8

\* The requests of a tab go on.
LEMMA ResumeStep ==
    ASSUME BridgeInv, NEW t \in Tab, NEW qs \in SUBSET Of(t), NEW tab \in TabState,
           \A q \in qs : req[q].stage \in {"finding", "acking", "waiting"},
           Resume(t, qs, tab),
           UNCHANGED <<page, life, asking, transfers, notFound>>, toWorker' \subseteq toWorker,
           tab.hello,
           tab.info # "none" => \A q \in Of(t) : req[q].stage \in {"acking", "waiting"} => q \in qs,
           \/ ~tabs[t].hello /\ tab.acked # "yes" /\ tab.info = "none"
           \/ tabs[t].hello /\ (Hello(life) \in toPage[t] => tab.acked # "yes" /\ tab.info = "none")
    PROVE  BridgeInv'
<1>1. /\ tabs' = [tabs EXCEPT ![t] = tab]
      /\ req' \in [Request -> RequestState]
      /\ \A q \in Request : q \notin qs => req'[q] = req[q]
      /\ \A q \in qs : req'[q] = Resumed(req[q], tab)
      /\ toPage' \in [Tab -> SUBSET ({Hello(n) : n \in 1..MaxLives} \cup {Serve(q) : q \in Request})]
      /\ \A u \in Tab : u # t => toPage'[u] = toPage[u]
      /\ \A q \in Request : Serve(q) \in toPage'[t] <=>
           \/ Serve(q) \in toPage[t]
           \/ q \in qs /\ req'[q].stage = "forwarded"
      /\ \A n \in 1..MaxLives : Hello(n) \in toPage'[t] <=>
           \/ Hello(n) \in toPage[t]
           \/ n = life /\ Greets(t, tab)
  BY ResumeIs
<1>2. qs \subseteq Request /\ \A q \in qs : req[q].tab = t /\ req[q] \in RequestState
  BY InvTypes DEF Of
<1>3. tabs' \in [Tab -> TabState] /\ tabs'[t] = tab /\ \A u \in Tab : u # t => tabs'[u] = tabs[u]
  BY <1>1, InvTypes
<1>4. PagesOK' /\ Messages'
  BY <1>1 DEF BridgeInv, PagesOK, PageOK, PageState, Settled, Messages, Hello, Serve
<1>5. TypeOK'
  <2>1. \A u \in Tab, p \in Request : Serve(p) \in toPage[u] => req[p].tab = u
    BY MessageIs DEF BridgeInv, TypeOK, Of
  <2>2. \A p \in Request : req'[p].tab = req[p].tab
    BY <1>1, <1>2, ResumedIs
  <2>3. \A u \in Tab, p \in Request : Serve(p) \in toPage'[u] => req[p].tab = u
    BY <1>1, <1>2, <2>1
  <2>4. \A u \in Tab : ~tabs'[u].hello => tabs'[u] = Unknown
    BY <1>3 DEF BridgeInv, TypeOK
  <2> QED BY <1>1, <1>3, <1>4, <2>2, <2>3, <2>4, InvTypes, TypesNext
<1>6. ASSUME NEW p \in Request PROVE RequestOK(p)'
  <2> DEFINE u == req[p].tab
  <2>1. RequestOK(p) /\ u \in Tab /\ u = req[p].tab
    BY InvTypes DEF BridgeInv
  <2>2. CASE p \notin qs
    <3>1. req'[p] = req[p] /\ (Serve(p) \in toPage'[u] => Serve(p) \in toPage[u])
      BY <1>1, <2>1, <2>2
    <3>2. req[p].stage \in {"acking", "waiting"} => tabs'[u].hello /\ tabs'[u].info = "none"
      <4>1. req[p].stage \in {"acking", "waiting"} => tabs[u].hello /\ tabs[u].info = "none"
        BY <2>1 DEF RequestOK
      <4>2. u = t => p \in Of(t)
        BY DEF Of
      <4> QED BY <1>3, <2>1, <2>2, <4>1, <4>2
    <3>3. p \in transfers => page[u].script # "gone"
      BY <2>1 DEF RequestOK, Alive
    <3> HIDE DEF u
    <3> QED BY <2>1, <3>1, <3>2, <3>3, RequestFrame
  <2>3. CASE p \in qs
    <3> DEFINE r == req'[p]
    <3>1. /\ u = t /\ req[p].result = "none" /\ req[p].asked = 0 /\ req[p] \in RequestState
          /\ req[p].stage \in {"finding", "acking", "waiting"}
      BY <1>2, <2>3, StageSays
    <3>2. /\ r.tab = t /\ r.result = "none"
          /\ \/ r.stage \in {"acking", "waiting", "forwarded"} /\ r.asked = 0
             \/ r.stage = "network" /\ r.asked = 1
          /\ r.stage \in {"acking", "waiting"} => tab.info = "none"
      BY <1>1, <1>2, <2>3, <3>1, ResumedIs
    <3>3. /\ p \notin transfers
          /\ page[t].script # "gone" =>
               /\ p \notin notFound /\ Serve(p) \notin toPage[t]
               /\ \A kind \in {"served", "unserved"} : Reply(kind, p) \notin toWorker
      BY <2>1, <3>1, Unanswered DEF RequestOK, Alive
    <3>4. Serve(p) \in toPage'[t] <=> Serve(p) \in toPage[t] \/ r.stage = "forwarded"
      BY <1>1, <2>3
    <3> HIDE DEF r, u
    <3>5. r = req'[p]
      BY DEF r
    <3> QED BY <1>3, <3>2, <3>3, <3>4, <3>5, RequestNext
  <2> QED BY <2>2, <2>3
<1>7. ASSUME NEW u \in Tab PROVE HelloOK(u)'
  <2>1. HelloOK(u) /\ life \in 1..MaxLives
    BY InvTypes DEF BridgeInv
  <2>2. CASE u # t
    BY <1>1, <1>3, <2>1, <2>2, HelloFrame
  <2>3. CASE u = t
    <3> DEFINE told == Told(t)
    <3>1. told \in BOOLEAN /\ ((\E m \in toWorker' : m \in HelloReply /\ m.tab = t) => told)
      BY DEF Told
    <3>2. /\ asking[t] \subseteq 1..life
          /\ \A i \in 1..MaxLives : Hello(i) \in toPage[t] => i <= life
          /\ ~tabs[t].hello => /\ ~told
                               /\ Hello(life) \notin toPage[t] /\ life \notin asking[t]
          /\ Hello(life) \in toPage[t] => life \notin asking[t] /\ ~told
      BY <2>1, <2>3 DEF HelloOK
    <3>3. Greets(t, tab) <=> ~tabs[t].hello
      BY DEF Greets
    <3> HIDE DEF told
    <3>4. HelloOK(t)'
      BY <1>1, <1>3, <2>1, <3>1, <3>2, <3>3, HelloNext
    <3> QED BY <2>3, <3>4
  <2> QED BY <2>2, <2>3
<1> QED BY <1>4, <1>5, <1>6, <1>7 DEF BridgeInv

LEMMA FindStep == ASSUME BridgeInv, NEW q \in Request, Find(q) PROVE BridgeInv'
<1> DEFINE t   == req[q].tab
           tab == [tabs[t] EXCEPT !.hello = TRUE]
<1>1. /\ req[q].stage = "finding" /\ t \in Tab /\ tabs[t] \in TabState
      /\ UNCHANGED <<page, life, asking, transfers, toWorker, notFound>>
  BY InvTypes DEF Find
<1>2. CASE Alive(t)
  <2>1. Resume(t, {q}, tab)
    BY <1>2 DEF Find
  <2>2. /\ tab \in TabState /\ tab.hello /\ tab.acked = tabs[t].acked /\ tab.info = tabs[t].info
    BY <1>1 DEF TabState
  <2>3. tab.info # "none" =>
          \A p \in Of(t) : req[p].stage \in {"acking", "waiting"} => p \in {q}
    BY <2>2 DEF BridgeInv, RequestOK, Of
  <2>4. \/ ~tabs[t].hello /\ tab.acked # "yes" /\ tab.info = "none"
        \/ tabs[t].hello /\ (Hello(life) \in toPage[t] => tab.acked # "yes" /\ tab.info = "none")
    BY <1>1, <2>2 DEF BridgeInv, HelloOK, Unknown
  <2>5. {q} \in SUBSET Of(t) /\ t \in Tab
    BY <1>1 DEF Of
  <2> HIDE DEF tab, t
  <2> QED BY <1>1, <2>1, <2>2, <2>3, <2>4, <2>5, ResumeStep
<1>3. CASE ~Alive(t)
  <2> DEFINE r == AtNetwork(req[q])
  <2>1. req' = [req EXCEPT ![q] = r] /\ UNCHANGED <<tabs, toPage>>
    BY <1>3 DEF Find
  <2>2. req[q] \in RequestState /\ req[q].asked = 0 /\ req[q].result = "none" /\ RequestOK(q)
    BY <1>1, StageSays DEF BridgeInv
  <2>3. /\ r \in RequestState /\ r.tab = t /\ r.result = "none" /\ r.stage = "network" /\ r.asked = 1
    BY <2>2, AtNetworkIs
  <2>4. q \notin transfers
    BY <1>3, <2>2 DEF RequestOK
  <2>5. tabs \in [Tab -> TabState] /\ \A u \in Tab : ~tabs[u].hello => tabs[u] = Unknown
    BY DEF BridgeInv, TypeOK
  <2> HIDE DEF r, t
  <2>6. t = req[q].tab
    BY DEF t
  <2> QED BY <1>1, <1>3, <2>1, <2>3, <2>4, <2>5, <2>6, OneRequestStep
<1> QED BY <1>2, <1>3

LEMMA AckTimeoutStep == ASSUME BridgeInv, NEW t \in Tab, AckTimeout(t) PROVE BridgeInv'
<1> DEFINE tab == [tabs[t] EXCEPT !.acked = "no"]
<1>1. /\ tabs[t].hello /\ Resume(t, Waiting(t), tab) /\ tabs[t] \in TabState
      /\ UNCHANGED <<page, life, asking, transfers, toWorker, notFound>>
  BY InvTypes DEF AckTimeout
<1>2. /\ tab \in TabState /\ tab.hello /\ tab.acked = "no" /\ tab.info = tabs[t].info
  BY <1>1 DEF TabState
<1>3. Hello(life) \in toPage[t] => tab.info = "none"
  BY <1>2 DEF BridgeInv, HelloOK
<1>4. /\ Waiting(t) \in SUBSET Of(t)
      /\ \A q \in Of(t) : q \in Waiting(t) <=> req[q].stage \in {"acking", "waiting"}
  BY DEF Waiting
<1> HIDE DEF tab
<1> QED BY <1>1, <1>2, <1>3, <1>4, ResumeStep

LEMMA HearHelloStep == ASSUME BridgeInv, NEW m \in toWorker, HearHello(m) PROVE BridgeInv'
<1> DEFINE t   == m.tab
           tab == [tabs[t] EXCEPT !.acked = IF @ = "open" THEN "yes" ELSE @,
                                  !.info  = IF m.kind = "connecting" THEN @ ELSE m.kind]
           qs  == IF tab.info = "none" /\ tabs[t].acked = "open" THEN Waiting(t)
                  ELSE IF tab.info = "none" THEN {} ELSE Waiting(t)
<1>1. /\ m.kind \in {"connecting", "up", "down"} /\ Resume(t, qs, tab)
      /\ toWorker' = toWorker \ {m}
      /\ UNCHANGED <<page, life, asking, transfers, notFound>>
  BY DEF HearHello
<1>2. m \in HelloReply /\ t \in Tab /\ tabs[t] \in TabState
  BY <1>1, InvTypes DEF HelloReply, ServeReply
\* The reply shows that the tab was greeted, and has the greeting no more.
<1>3. tabs[t].hello /\ Hello(life) \notin toPage[t]
  <2>1. HelloOK(t) /\ Told(t)
    BY <1>2 DEF BridgeInv, Told
  <2> QED BY <2>1 DEF HelloOK
<1>4. tab \in TabState /\ tab.hello
  <2> DEFINE acked == IF tabs[t].acked = "open" THEN "yes" ELSE tabs[t].acked
             info  == IF m.kind = "connecting" THEN tabs[t].info ELSE m.kind
  <2>1. acked \in {"open", "yes", "no"} /\ info \in {"none", "up", "down"}
    BY <1>1, <1>2 DEF TabState
  <2>2. tab = [tabs[t] EXCEPT !.acked = acked, !.info = info]
    OBVIOUS
  <2> HIDE DEF acked, info, tab
  <2> QED BY <1>2, <1>3, <2>1, <2>2 DEF TabState
<1>5. /\ qs \in SUBSET Of(t)
      /\ \A q \in qs : req[q].stage \in {"finding", "acking", "waiting"}
      /\ tab.info # "none" => \A q \in Of(t) : req[q].stage \in {"acking", "waiting"} => q \in qs
  BY DEF Waiting
<1> HIDE DEF tab, qs, t
<1> QED BY <1>1, <1>2, <1>3, <1>4, <1>5, ResumeStep

LEMMA WorkerStopsStep == ASSUME BridgeInv, WorkerStops PROVE BridgeInv'
<1>1. /\ life < MaxLives /\ \A q \in Request : req[q].stage \in {"new", "fetch", "done"}
      /\ life' = life + 1 /\ tabs' = [t \in Tab |-> Unknown] /\ toWorker' = {}
      /\ UNCHANGED <<page, req, toPage, asking, transfers, notFound>>
  BY DEF WorkerStops
<1>2. life \in 1..MaxLives /\ life' \in 1..MaxLives
  BY <1>1, InvTypes, BridgeAssumption
<1>3. PagesOK' /\ Messages'
  BY <1>1 DEF BridgeInv, PagesOK, PageOK, PageState, Settled, Messages, Hello, Serve
<1>4. Unknown \in TabState /\ Unknown.acked = "open" /\ Unknown.info = "none"
  BY DEF Unknown, TabState
<1>5. TypeOK'
  <2>1. \A u \in Tab, p \in Request : Serve(p) \in toPage[u] => req[p].tab = u
    BY MessageIs DEF BridgeInv, TypeOK, Of
  <2> QED BY <1>1, <1>2, <1>3, <1>4, <2>1, InvTypes, TypesNext
<1>6. ASSUME NEW q \in Request PROVE RequestOK(q)'
  <2> DEFINE t == req[q].tab
  <2>1. RequestOK(q) /\ t = req[q].tab
    BY DEF BridgeInv
  <2>2. q \in transfers => page[t].script # "gone"
    BY <2>1 DEF RequestOK, Alive
  <2> HIDE DEF t
  <2> QED BY <1>1, <2>1, <2>2, RequestFrame
<1>7. ASSUME NEW t \in Tab PROVE HelloOK(t)'
  <2>1. /\ asking[t] \subseteq 1..life
        /\ \A n \in 1..MaxLives : Hello(n) \in toPage[t] => n <= life
    BY DEF BridgeInv, HelloOK
  <2>2. life + 1 \notin asking[t] /\ Hello(life + 1) \notin toPage[t] /\ asking[t] \subseteq 1..life + 1
    BY <1>1, <1>2, <2>1
  <2>3. \A i \in 1..MaxLives : Hello(i) \in toPage[t] => i <= life + 1
    BY <1>2, <2>1
  <2> DEFINE n == life'
  <2>4. n = life + 1
    BY <1>1
  <2> HIDE DEF n
  <2> QED BY <1>1, <2>2, <2>3, <2>4, HelloNext DEF n
<1> QED BY <1>3, <1>5, <1>6, <1>7 DEF BridgeInv

LEMMA KindsDiffer == ServeReply \cap HelloReply = {}
BY DEF ServeReply, HelloReply

\* A step that greets no tab and answers no hello keeps HelloOK of every tab.
LEMMA HelloQuiet ==
    ASSUME BridgeInv, UNCHANGED <<life, tabs>>,
           \A t \in Tab : /\ asking'[t] \subseteq asking[t]
                          /\ \A n \in 1..MaxLives : Hello(n) \in toPage'[t] => Hello(n) \in toPage[t],
           \A m \in HelloReply : m \in toWorker' => m \in toWorker
    PROVE  \A t \in Tab : HelloOK(t)'
<1> TAKE t \in Tab
<1>1. HelloOK(t) /\ life \in 1..MaxLives
  BY InvTypes DEF BridgeInv
<1> QED BY <1>1, HelloFrame

\* Where the messages to the pages are, by TypeOK: each with its own tab.
LEMMA PostedIs ==
    ASSUME BridgeInv
    PROVE  /\ \A t \in Tab, q \in Request : Serve(q) \in toPage[t] => req[q].tab = t
           /\ toPage \in [Tab -> SUBSET ({Hello(n) : n \in 1..MaxLives} \cup {Serve(q) : q \in Request})]
           /\ asking \in [Tab -> SUBSET (1..MaxLives)]
           /\ \A t \in Tab : ~tabs[t].hello => tabs[t] = Unknown
BY MessageIs DEF BridgeInv, TypeOK, Of, Messages

LEMMA PageFetchStep == ASSUME BridgeInv, NEW q \in Request, PageFetch(q) PROVE BridgeInv'
<1> DEFINE t == req[q].tab
           r == req'[q]
<1>1. /\ req[q].stage = "new" /\ page[t].script = "installed"
      /\ UNCHANGED <<page, life, tabs, toPage, asking, toWorker, notFound>>
  BY DEF PageFetch
<1>2. /\ req[q] \in RequestState /\ t \in Tab /\ req[q].result = "none" /\ req[q].asked = 0
      /\ RequestOK(q) /\ Alive(t)
  BY <1>1, StageSays DEF BridgeInv, Alive
<1>3. /\ \/ /\ req' = [req EXCEPT ![q] = [req[q] EXCEPT !.stage = "fetch"]]
            /\ transfers' = transfers \cup {q}
         \/ req' = [req EXCEPT ![q] = Intercepted(req[q])] /\ transfers' = transfers
  BY DEF PageFetch
<1>4. /\ req' \in [Request -> RequestState] /\ \A p \in Request : p # q => req'[p] = req[p]
      /\ r.tab = t /\ r.result = "none"
      /\ \/ r.stage = "fetch" /\ r.asked = 0 /\ transfers' = transfers \cup {q}
         \/ r.stage = "finding" /\ r.asked = 0 /\ transfers' = transfers
         \/ r.stage = "network" /\ r.asked = 1 /\ transfers' = transfers
  <2>1. req \in [Request -> RequestState]
    BY InvTypes
  <2>2. CASE /\ req' = [req EXCEPT ![q] = [req[q] EXCEPT !.stage = "fetch"]]
             /\ transfers' = transfers \cup {q}
    <3> DEFINE n == [req[q] EXCEPT !.stage = "fetch"]
    <3>1. /\ n \in RequestState /\ n.tab = t /\ n.stage = "fetch"
          /\ n.asked = 0 /\ n.result = "none"
      BY <1>2, StagedIs
    <3>2. req' = [req EXCEPT ![q] = n] /\ transfers' = transfers \cup {q}
      BY <2>2
    <3> HIDE DEF n
    <3> QED BY <2>1, <3>1, <3>2
  <2>3. CASE req' = [req EXCEPT ![q] = Intercepted(req[q])] /\ transfers' = transfers
    <3> DEFINE n == Intercepted(req[q])
    <3>1. /\ n \in RequestState /\ n.tab = t /\ n.result = "none"
          /\ \/ n.stage = "finding" /\ n.asked = 0
             \/ n.stage = "network" /\ n.asked = 1
      BY <1>2, InterceptedIs
    <3>2. req' = [req EXCEPT ![q] = n] /\ transfers' = transfers
      BY <2>3
    <3> HIDE DEF n
    <3> QED BY <2>1, <3>1, <3>2
  <2> QED BY <1>3, <2>2, <2>3
<1>5. /\ q \notin transfers /\ q \notin notFound /\ Serve(q) \notin toPage[t]
      /\ \A kind \in {"served", "unserved"} : Reply(kind, q) \notin toWorker
  BY <1>1, <1>2, Unanswered
<1>6. PagesOK' /\ Messages'
  BY <1>1 DEF BridgeInv, PagesOK, PageOK, PageState, Settled, Messages, Hello, Serve
<1>7. TypeOK'
  <2>1. transfers' \subseteq Request /\ \A p \in Request : req'[p].tab = req[p].tab
    BY <1>4, InvTypes
  <2> QED BY <1>1, <1>4, <1>6, <2>1, InvTypes, PostedIs, TypesNext
<1>8. ASSUME NEW p \in Request PROVE RequestOK(p)'
  <2>1. CASE p # q
    <3> DEFINE u == req[p].tab
    <3>1. RequestOK(p) /\ u = req[p].tab
      BY DEF BridgeInv
    <3>2. /\ p \in transfers => page[u].script # "gone"
          /\ req[p].stage \in {"acking", "waiting"} => tabs[u].hello /\ tabs[u].info = "none"
      BY <3>1 DEF RequestOK, Alive
    <3>3. p \in transfers' => p \in transfers
      BY <1>3, <2>1
    <3> HIDE DEF u
    <3> QED BY <1>1, <1>4, <2>1, <3>1, <3>2, <3>3, RequestFrame
  <2>2. CASE p = q
    <3>1. page'[t].script # "gone"
      BY <1>1
    <3> HIDE DEF t, r
    <3>2. r = req'[q]
      BY DEF r
    <3>3. RequestOK(q)'
      BY <1>1, <1>4, <1>5, <3>1, <3>2, RequestNext
    <3> QED BY <2>2, <3>3
  <2> QED BY <2>1, <2>2
<1>9. \A u \in Tab : HelloOK(u)'
  BY <1>1, HelloQuiet
<1> QED BY <1>6, <1>7, <1>8, <1>9 DEF BridgeInv

\* What a page makes of the end of a transfer of its own or of the worker's.
LEMMA SettleIs ==
    ASSUME BridgeInv, NEW q \in transfers, NEW ok
    PROVE  LET r == req[q]
               n == Settle(q, ok)
           IN  /\ n \in RequestState /\ n.tab = r.tab
               /\ n.stage = "done" <=> n.result # "none"
               /\ n.asked = IF n.stage = "network" \/ n.result \in {"network", "error"} THEN 1 ELSE 0
               /\ n.stage \notin {"acking", "waiting"}
               /\ n.stage = "forwarded" <=> r.stage = "forwarded"
               /\ ok => n.stage = "forwarded" \/ n.result \in {"http4", "aborted"}
<1> DEFINE r == req[q]
           n == Settle(q, ok)
<1>1. q \in Request /\ RequestOK(q) /\ r \in RequestState
  BY InvTypes DEF BridgeInv
<1>2. /\ r.stage \in {"fetch", "forwarded"} \/ r.result = "aborted"
      /\ r.stage = "done" <=> r.result # "none"
      /\ r.asked = IF r.stage = "network" \/ r.result \in {"network", "error"} THEN 1 ELSE 0
  BY <1>1 DEF RequestOK
<1>3. CASE r.stage = "fetch" /\ ok
  <2>1. n = Finished(r, "http4")
    BY <1>3 DEF Settle
  <2>2. /\ n \in RequestState /\ n.tab = r.tab /\ n.stage = "done" /\ n.result = "http4"
        /\ n.asked = 0
    <3>1. r.asked = 0 /\ r \in RequestState
      BY <1>1, <1>2, <1>3
    <3> HIDE DEF n, r
    <3> QED BY <2>1, <3>1, FinishedIs
  <2> HIDE DEF n
  <2> QED BY <1>3, <2>2 DEF n
<1>4. CASE r.stage = "fetch" /\ ~ok
  <2>1. n = Intercepted(r)
    BY <1>4 DEF Settle
  <2>2. /\ n \in RequestState /\ n.tab = r.tab /\ n.result = "none"
        /\ \/ n.stage = "finding" /\ n.asked = 0
           \/ n.stage = "network" /\ n.asked = 1
    BY <1>1, <1>2, <1>4, <2>1, InterceptedIs
  <2> HIDE DEF n
  <2> QED BY <1>4, <2>2 DEF n
<1>5. CASE r.stage # "fetch"
  <2>1. n = r
    BY <1>5 DEF Settle
  <2> QED BY <1>1, <1>2, <1>5, <2>1
<1> QED BY <1>3, <1>4, <1>5

LEMMA TransferEndsStep == ASSUME BridgeInv, NEW q \in Request, TransferEnds(q) PROVE BridgeInv'
<1>1. PICK end \in {"body", "not found", "failed"} :
         /\ q \in transfers /\ transfers' = transfers \ {q}
         /\ req' = [req EXCEPT ![q] = Settle(q, Authoritative(end))]
         /\ toWorker' = toWorker \cup Replies({q}, Authoritative(end))
         /\ notFound' = IF end = "not found" THEN notFound \cup {q} ELSE notFound
         /\ UNCHANGED <<page, life, tabs, toPage, asking>>
  BY DEF TransferEnds
<1> DEFINE ok == Authoritative(end)
           t  == req[q].tab
           r  == Settle(q, ok)
<1>2. /\ end = "not found" => ok
      /\ RequestOK(q) /\ Alive(t) /\ t \in Tab /\ {q} \in SUBSET Request
  <2>1. end = "not found" => ok
    BY DEF Authoritative
  <2>2. RequestOK(q) /\ t \in Tab
    BY InvTypes DEF BridgeInv
  <2> QED BY <1>1, <2>1, <2>2 DEF RequestOK
<1> HIDE DEF ok
<1>3. /\ r \in RequestState /\ r.tab = t
      /\ r.stage = "done" <=> r.result # "none"
      /\ r.asked = IF r.stage = "network" \/ r.result \in {"network", "error"} THEN 1 ELSE 0
      /\ r.stage \notin {"acking", "waiting"}
      /\ r.stage = "forwarded" <=> req[q].stage = "forwarded"
      /\ ok => r.stage = "forwarded" \/ r.result \in {"http4", "aborted"}
  BY <1>1, <1>2, SettleIs
<1>4. /\ q \notin notFound /\ Serve(q) \notin toPage[t]
      /\ \A kind \in {"served", "unserved"} : Reply(kind, q) \notin toWorker
  BY <1>1, <1>2 DEF RequestOK
<1> DEFINE sent == Replies({q}, ok)
<1>5. /\ sent \subseteq ServeReply
      /\ \A k, p : Reply(k, p) \in sent <=> /\ k = (IF ok THEN "served" ELSE "unserved")
                                            /\ p = q /\ req[q].stage = "forwarded"
  BY <1>2, RepliesIs DEF Replies, ServeReply, Reply
<1>6. toWorker' = toWorker \cup sent
  BY <1>1 DEF ok
<1> HIDE DEF sent
<1>7. /\ req' = [req EXCEPT ![q] = r]
      /\ req' \in [Request -> RequestState] /\ \A p \in Request : p # q => req'[p] = req[p]
  BY <1>1, <1>3, InvTypes DEF ok
<1>8. PagesOK' /\ Messages'
  BY <1>1 DEF BridgeInv, PagesOK, PageOK, PageState, Settled, Messages, Hello, Serve
<1> HIDE DEF r, t
<1>9. t = req[q].tab /\ r = req'[q]
  BY <1>7, InvTypes DEF t
<1>10. TypeOK'
  <2>1. \A p \in Request : req'[p].tab = req[p].tab
    BY <1>3, <1>7, <1>9
  <2>2. transfers' \subseteq Request /\ notFound' \subseteq Request
    BY <1>1, InvTypes
  <2>3. toWorker' \subseteq HelloReply \cup ServeReply
    BY <1>5, <1>6, InvTypes
  <2> QED BY <1>1, <1>7, <1>8, <2>1, <2>2, <2>3, InvTypes, PostedIs, TypesNext
<1>11. ASSUME NEW p \in Request PROVE RequestOK(p)'
  <2>1. CASE p # q
    <3> DEFINE u == req[p].tab
    <3>1. RequestOK(p) /\ u = req[p].tab
      BY DEF BridgeInv
    <3>2. /\ p \in transfers => page[u].script # "gone"
          /\ req[p].stage \in {"acking", "waiting"} => tabs[u].hello /\ tabs[u].info = "none"
      BY <3>1 DEF RequestOK, Alive
    <3>3. /\ p \in transfers' => p \in transfers
          /\ p \in notFound' => p \in notFound
          /\ \A kind : Reply(kind, p) \in toWorker' => Reply(kind, p) \in toWorker
      BY <1>1, <1>5, <1>6, <2>1
    <3> HIDE DEF u
    <3> QED BY <1>1, <1>7, <2>1, <3>1, <3>2, <3>3, RequestFrame
  <2>2. CASE p = q
    <3>1. /\ q \notin transfers' /\ toPage' = toPage /\ (q \in notFound' => end = "not found")
          /\ \A kind \in {"served", "unserved"} : Reply(kind, q) \in toWorker' =>
               /\ kind = (IF ok THEN "served" ELSE "unserved") /\ r.stage = "forwarded"
      BY <1>1, <1>3, <1>4, <1>5, <1>6
    <3>2. RequestOK(q)'
      BY <1>2, <1>3, <1>4, <1>9, <3>1, RequestNext
    <3> QED BY <2>2, <3>2
  <2> QED BY <2>1, <2>2
<1>12. \A u \in Tab : HelloOK(u)'
  <2>1. \A m \in HelloReply : m \in toWorker' => m \in toWorker
    BY <1>5, <1>6, KindsDiffer
  <2> QED BY <1>1, <2>1, HelloQuiet
<1> QED BY <1>8, <1>10, <1>11, <1>12 DEF BridgeInv

\* The page's answer to a hello: a hello of an older life goes unheard.
LEMMA ReadyIs ==
    ASSUME NEW t \in Tab, NEW p, life \in 1..MaxLives
    PROVE  /\ Ready(t, p) \in HelloReply /\ Ready(t, p).tab = t
           /\ \A q, kind : kind \in {"served", "unserved"} => Ready(t, p) # Reply(kind, q)
<1>1. Ready(t, p) \in HelloReply /\ Ready(t, p).tab = t
  BY DEF Ready, HelloReply
<1> QED BY <1>1, MessageIs

LEMMA AnswerHelloStep ==
    ASSUME BridgeInv, NEW t \in Tab, NEW m \in toPage[t], page[t].script = "installed",
           AnswerHello(t, m), toPage' = [toPage EXCEPT ![t] = toPage[t] \ {m}],
           UNCHANGED <<page, life, tabs, req, notFound>>
    PROVE  BridgeInv'
<1> DEFINE connecting == [kind |-> "connecting", tab |-> t, life |-> life]
           n          == m.life
<1>1. /\ m.kind = "hello" /\ transfers' = transfers
      /\ \/ n # life /\ toWorker' = toWorker
         \/ n = life /\ toWorker' \subseteq toWorker \cup {connecting, Ready(t, page[t])}
      /\ asking' = asking \/ asking' = [asking EXCEPT ![t] = asking[t] \cup {n}]
  BY DEF AnswerHello, PortLive
<1>2. life \in 1..MaxLives /\ HelloOK(t)
  BY InvTypes DEF BridgeInv
<1>3. m = Hello(n) /\ n \in 1..MaxLives
  BY <1>1, PostedIs, MessageIs
<1>4. n \in 1..life
  BY <1>2, <1>3 DEF HelloOK
<1>5. /\ connecting \in HelloReply /\ connecting.tab = t
      /\ Ready(t, page[t]) \in HelloReply /\ Ready(t, page[t]).tab = t
  BY <1>2, ReadyIs DEF HelloReply
<1>6. /\ toWorker' \subseteq toWorker \cup HelloReply
      /\ \A x \in HelloReply : x \in toWorker' => x \in toWorker \/ (n = life /\ x.tab = t)
  BY <1>1, <1>5
<1>7. \A k, p : k \in {"served", "unserved"} /\ Reply(k, p) \in toWorker' => Reply(k, p) \in toWorker
  BY <1>6, MessageIs
<1> HIDE DEF connecting, n
<1>8. /\ asking' \in [Tab -> SUBSET (1..MaxLives)]
      /\ asking'[t] \subseteq asking[t] \cup {n}
      /\ \A u \in Tab : u # t => asking'[u] = asking[u]
  BY <1>1, <1>3, PostedIs
<1>9. /\ toPage' \in [Tab -> SUBSET ({Hello(i) : i \in 1..MaxLives} \cup {Serve(q) : q \in Request})]
      /\ toPage'[t] = toPage[t] \ {Hello(n)}
      /\ \A u \in Tab : toPage'[u] \subseteq toPage[u]
  BY <1>3, PostedIs
<1>10. Messages' /\ PagesOK'
  BY <1>8, <1>9 DEF BridgeInv, PagesOK, PageOK, PageState, Settled, Messages, Hello, Serve
<1>11. TypeOK'
  <2>1. \A u \in Tab, p \in Request : Serve(p) \in toPage'[u] => req[p].tab = u
    BY <1>9, PostedIs
  <2> QED BY <1>1, <1>2, <1>6, <1>10, <2>1, InvTypes, PostedIs, TypesNext
<1>12. ASSUME NEW p \in Request PROVE RequestOK(p)'
  <2> DEFINE u == req[p].tab
  <2>1. RequestOK(p) /\ u = req[p].tab /\ u \in Tab
    BY InvTypes DEF BridgeInv
  <2>2. /\ p \in transfers => page[u].script # "gone"
        /\ req[p].stage \in {"acking", "waiting"} => tabs[u].hello /\ tabs[u].info = "none"
    BY <2>1 DEF RequestOK, Alive
  <2> HIDE DEF u
  <2> QED BY <1>1, <1>7, <1>9, <2>1, <2>2, RequestFrame
<1>13. ASSUME NEW u \in Tab PROVE HelloOK(u)'
  <2>1. CASE u # t
    <3>1. HelloOK(u)
      BY DEF BridgeInv
    <3> QED BY <1>2, <1>6, <1>8, <1>9, <2>1, <3>1, HelloFrame
\* The hello that the page has answered is the last of this life that it may hold.
  <2>2. CASE u = t
    <3> DEFINE told == \E x \in toWorker' : x \in HelloReply /\ x.tab = t
    <3>1. told \in BOOLEAN
      OBVIOUS
    <3>2. told => Told(t) \/ n = life
      BY <1>6 DEF Told
    <3>3. /\ asking[t] \subseteq 1..life
          /\ \A i \in 1..MaxLives : Hello(i) \in toPage[t] => i <= life
          /\ ~tabs[t].hello => /\ tabs[t] = Unknown /\ ~Told(t)
                               /\ Hello(life) \notin toPage[t] /\ life \notin asking[t]
          /\ Hello(life) \in toPage[t] => /\ life \notin asking[t] /\ ~Told(t)
                                          /\ tabs[t].acked # "yes" /\ tabs[t].info = "none"
      BY <1>2 DEF HelloOK
    <3>4. Hello(n) \in toPage[t]
      BY <1>3
    <3> HIDE DEF told
    <3>5. /\ asking'[t] \subseteq 1..life
          /\ \A i \in 1..MaxLives : Hello(i) \in toPage'[t] => i <= life
          /\ ~tabs[t].hello => /\ tabs[t] = Unknown /\ ~told
                               /\ Hello(life) \notin toPage'[t] /\ life \notin asking'[t]
          /\ Hello(life) \in toPage'[t] => /\ life \notin asking'[t] /\ ~told
                                           /\ tabs[t].acked # "yes" /\ tabs[t].info = "none"
      BY <1>4, <1>8, <1>9, <3>2, <3>3, <3>4
    <3>6. (\E x \in toWorker' : x \in HelloReply /\ x.tab = t) => told
      BY DEF told
    <3>7. HelloOK(t)'
      BY <3>1, <3>5, <3>6, HelloNext
    <3> QED BY <2>2, <3>7
  <2> QED BY <2>1, <2>2
<1> QED BY <1>10, <1>11, <1>12, <1>13 DEF BridgeInv

LEMMA AnswerServeStep ==
    ASSUME BridgeInv, NEW t \in Tab, NEW m \in toPage[t], page[t].script = "installed",
           AnswerServe(m), toPage' = [toPage EXCEPT ![t] = toPage[t] \ {m}],
           UNCHANGED <<page, life, tabs, req, notFound>>
    PROVE  BridgeInv'
<1> DEFINE q    == m.req
           sent == Replies({q}, FALSE)
<1>1. /\ m.kind = "serve" /\ asking' = asking
      /\ \/ transfers' = transfers \cup {q} /\ toWorker' = toWorker
         \/ transfers' = transfers /\ toWorker' = toWorker \cup sent
  BY DEF AnswerServe
<1>2. m = Serve(q) /\ q \in Request /\ req[q].tab = t
  BY <1>1, PostedIs, MessageIs
\* The message is the only trace of its request.
<1>3. /\ Alive(t) /\ req[q].stage = "forwarded" /\ q \notin transfers /\ q \notin notFound
      /\ req[q].stage = "done" <=> req[q].result # "none"
      /\ req[q].asked = IF req[q].stage = "network" \/ req[q].result \in {"network", "error"}
                        THEN 1 ELSE 0
      /\ \A kind \in {"served", "unserved"} : Reply(kind, q) \notin toWorker
  <2>1. RequestOK(q) /\ Alive(t) /\ Serve(q) \in toPage[t]
    BY <1>2 DEF BridgeInv, Alive
  <2> QED BY <1>2, <2>1 DEF RequestOK
<1>4. /\ sent \subseteq ServeReply
      /\ \A k, p : Reply(k, p) \in sent <=> k = "unserved" /\ p = q
  BY <1>2, <1>3 DEF Replies, ServeReply, Reply
<1> HIDE DEF sent, q
<1>5. /\ \A u \in Tab : toPage'[u] \subseteq toPage[u]
      /\ toPage'[t] = toPage[t] \ {Serve(q)}
      /\ toPage' \in [Tab -> SUBSET ({Hello(i) : i \in 1..MaxLives} \cup {Serve(p) : p \in Request})]
  BY <1>2, PostedIs
<1>6. /\ transfers' \subseteq transfers \cup {q}
      /\ \A k, p : Reply(k, p) \in toWorker' =>
           Reply(k, p) \in toWorker \/ (k = "unserved" /\ p = q /\ transfers' = transfers)
  BY <1>1, <1>4
<1>7. Messages' /\ PagesOK'
  BY <1>1, <1>5 DEF BridgeInv, PagesOK, PageOK, PageState, Settled, Messages, Hello, Serve
<1>8. TypeOK'
  <2>1. \A u \in Tab, p \in Request : Serve(p) \in toPage'[u] => req[p].tab = u
    BY <1>5, PostedIs
  <2>2. transfers' \subseteq Request /\ toWorker' \subseteq HelloReply \cup ServeReply
    BY <1>1, <1>2, <1>4, InvTypes
  <2> QED BY <1>1, <1>7, <2>1, <2>2, InvTypes, PostedIs, TypesNext
<1>9. ASSUME NEW p \in Request PROVE RequestOK(p)'
  <2>1. CASE p # q
    <3> DEFINE u == req[p].tab
    <3>1. RequestOK(p) /\ u = req[p].tab /\ u \in Tab
      BY InvTypes DEF BridgeInv
    <3>2. /\ p \in transfers => page[u].script # "gone"
          /\ req[p].stage \in {"acking", "waiting"} => tabs[u].hello /\ tabs[u].info = "none"
      BY <3>1 DEF RequestOK, Alive
    <3> HIDE DEF u
    <3> QED BY <1>1, <1>5, <1>6, <2>1, <3>1, <3>2, RequestFrame
  <2>2. CASE p = q
    <3> DEFINE r == req'[q]
    <3>1. r = req[q] /\ page'[t].script # "gone" /\ Serve(q) \notin toPage'[t]
      BY <1>3, <1>5 DEF Alive
    <3>2. \A kind \in {"served", "unserved"} : Reply(kind, q) \in toWorker' =>
             kind = "unserved" /\ transfers' = transfers
      BY <1>3, <1>6
    <3>3. r = req'[q] /\ t = r.tab
      BY <1>2, <3>1
    <3> HIDE DEF r
    <3>4. RequestOK(q)'
      BY <1>2, <1>3, <3>1, <3>2, <3>3, RequestNext
    <3> QED BY <2>2, <3>4
  <2> QED BY <2>1, <2>2
<1>10. \A u \in Tab : HelloOK(u)'
  <2>1. \A x \in HelloReply : x \in toWorker' => x \in toWorker
    BY <1>1, <1>4, KindsDiffer
  <2> QED BY <1>1, <1>5, <2>1, HelloQuiet
<1> QED BY <1>7, <1>8, <1>9, <1>10 DEF BridgeInv

LEMMA AnswerStep == ASSUME BridgeInv, NEW t \in Tab, Answer(t) PROVE BridgeInv'
<1>1. PICK m \in toPage[t] :
         /\ page[t].script = "installed"
         /\ AnswerHello(t, m) \/ AnswerServe(m)
         /\ toPage' = [toPage EXCEPT ![t] = toPage[t] \ {m}]
         /\ UNCHANGED <<page, life, tabs, req, notFound>>
  BY DEF Answer
<1> QED BY <1>1, AnswerHelloStep, AnswerServeStep

LEMMA TabClosesStep == ASSUME BridgeInv, NEW t \in Tab, TabCloses(t) PROVE BridgeInv'
<1>1. /\ page' = [page EXCEPT ![t] = Gone(page[t])]
      /\ toPage' = [toPage EXCEPT ![t] = {}] /\ asking' = [asking EXCEPT ![t] = {}]
      /\ transfers' = transfers \ Of(t)
      /\ req' = [q \in Request |-> IF q \in Of(t) /\ req[q].stage = "fetch"
                                   THEN Finished(req[q], "aborted") ELSE req[q]]
      /\ UNCHANGED <<life, tabs, toWorker, notFound>>
  BY DEF TabCloses
<1>2. PagesOK'
  <2>1. PageOK(Gone(page[t])) /\ PagesOK
    BY GoneOK DEF BridgeInv, PagesOK
  <2> QED BY <1>1, <2>1, PageChanged
<1>3. /\ toPage' \in [Tab -> SUBSET ({Hello(i) : i \in 1..MaxLives} \cup {Serve(q) : q \in Request})]
      /\ asking' \in [Tab -> SUBSET (1..MaxLives)]
      /\ \A u \in Tab : toPage'[u] \subseteq toPage[u] /\ asking'[u] \subseteq asking[u]
  BY <1>1, PostedIs
<1>4. Messages'
  BY <1>3 DEF Messages, Hello, Serve
<1>5. page'[t].script = "gone" /\ \A u \in Tab : u # t => page'[u] = page[u]
  BY <1>1, InvTypes DEF Gone, PageState
<1>6. ASSUME NEW q \in Request
      PROVE  /\ req'[q] \in RequestState /\ req'[q].tab = req[q].tab
             /\ \/ req'[q] = req[q]
                \/ /\ req[q].tab = t /\ req'[q].stage = "done" /\ req'[q].result = "aborted"
                   /\ req'[q].asked = 0
  <2>1. CASE q \in Of(t) /\ req[q].stage = "fetch"
    <3>1. req'[q] = Finished(req[q], "aborted") /\ req[q].tab = t
      BY <1>1, <2>1 DEF Of
    <3>2. req[q] \in RequestState /\ req[q].asked = 0
      BY <2>1, StageSays
    <3> QED BY <3>1, <3>2, FinishedIs
  <2>2. CASE ~(q \in Of(t) /\ req[q].stage = "fetch")
    <3>1. req'[q] = req[q]
      BY <1>1, <2>2
    <3> QED BY <3>1, InvTypes
  <2> QED BY <2>1, <2>2
<1>7. TypeOK'
  <2>1. req' \in [Request -> RequestState] /\ \A q \in Request : req'[q].tab = req[q].tab
    BY <1>1, <1>6
  <2>2. transfers' \subseteq Request
    BY <1>1, InvTypes
  <2>3. \A u \in Tab, p \in Request : Serve(p) \in toPage'[u] => req[p].tab = u
    BY <1>3, PostedIs
  <2> QED BY <1>1, <1>2, <1>4, <2>1, <2>2, <2>3, InvTypes, PostedIs, TypesNext
<1>8. ASSUME NEW q \in Request PROVE RequestOK(q)'
  <2> DEFINE u == req[q].tab
  <2>1. RequestOK(q) /\ u = req[q].tab /\ u \in Tab
    BY InvTypes DEF BridgeInv
  <2>2. /\ q \in transfers => page[u].script # "gone"
        /\ q \in notFound => q \notin transfers
        /\ req[q].stage \in {"acking", "waiting"} => tabs[u].hello /\ tabs[u].info = "none"
    BY <2>1 DEF RequestOK, Alive
  <2>3. q \in transfers' => q \in transfers /\ u # t
    BY <1>1 DEF Of
  <2>4. CASE req'[q] = req[q]
    <3>1. q \in transfers' => page'[u].script # "gone"
      BY <1>5, <2>1, <2>2, <2>3
    <3>2. page'[u].script # "gone" => page[u].script # "gone"
      BY <1>5, <2>1
    <3> HIDE DEF u
    <3> QED BY <1>1, <1>3, <2>1, <2>2, <2>3, <2>4, <3>1, <3>2, RequestFrame
  <2>5. CASE req'[q] # req[q]
    <3> DEFINE r == req'[q]
    <3>1. /\ u = t /\ r.stage = "done" /\ r.result = "aborted" /\ r.asked = 0 /\ r.tab = u
          /\ page'[u].script = "gone" /\ q \notin transfers'
      BY <1>5, <1>6, <2>3, <2>5
    <3> HIDE DEF r, u
    <3>2. r = req'[q] /\ u = r.tab
      BY <3>1 DEF r
    <3>3. /\ r.stage = "done" <=> r.result # "none"
          /\ r.asked = IF r.stage = "network" \/ r.result \in {"network", "error"} THEN 1 ELSE 0
          /\ r.stage \notin {"acking", "waiting"}
      BY <3>1
    <3> QED BY <3>1, <3>2, <3>3, RequestNext
  <2> QED BY <2>4, <2>5
<1>9. \A u \in Tab : HelloOK(u)'
  BY <1>1, <1>3, HelloQuiet
<1> QED BY <1>2, <1>4, <1>7, <1>8, <1>9 DEF BridgeInv

LEMMA SessionStepStep == ASSUME BridgeInv, NEW t \in Tab, SessionStep(t) PROVE BridgeInv'
<1>1. PICK p \in Moves(page[t]) :
         LET failed == IF page[t].wt = "open" /\ p.wt # "open" THEN transfers \cap Of(t) ELSE {}
             owed   == IF Settled(p) /\ life \in asking[t] THEN {Ready(t, p)} ELSE {}
         IN  /\ page' = [page EXCEPT ![t] = p]
             /\ transfers' = transfers \ failed
             /\ req' = [q \in Request |-> IF q \in failed THEN Settle(q, FALSE) ELSE req[q]]
             /\ toWorker' = toWorker \cup Replies(failed, FALSE) \cup owed
             /\ asking' = [asking EXCEPT ![t] = IF Settled(p) THEN {} ELSE @]
             /\ UNCHANGED <<life, tabs, toPage, notFound>>
  BY DEF SessionStep
<1> DEFINE failed == IF page[t].wt = "open" /\ p.wt # "open" THEN transfers \cap Of(t) ELSE {}
           owed   == IF Settled(p) /\ life \in asking[t] THEN {Ready(t, p)} ELSE {}
           sent   == Replies(failed, FALSE)
<1>2. /\ page' = [page EXCEPT ![t] = p] /\ transfers' = transfers \ failed
      /\ req' = [q \in Request |-> IF q \in failed THEN Settle(q, FALSE) ELSE req[q]]
      /\ toWorker' = toWorker \cup sent \cup owed
      /\ UNCHANGED <<life, tabs, toPage, notFound>>
  BY <1>1
<1>3. asking' \in [Tab -> SUBSET (1..MaxLives)] /\ \A u \in Tab : asking'[u] \subseteq asking[u]
  BY <1>1, PostedIs
<1>4. failed \subseteq transfers /\ failed \subseteq Request /\ \A q \in failed : req[q].tab = t
  BY InvTypes DEF Of
<1>5. life \in 1..MaxLives /\ HelloOK(t) /\ page[t] \in PageState /\ PageOK(page[t])
  BY InvTypes DEF BridgeInv, PagesOK
<1>6. page[t].script # "gone" /\ p.script # "gone" /\ PageOK(p)
  BY <1>5, MovesAlive, MovesOK
<1>7. /\ sent \subseteq ServeReply
      /\ \A k, q : Reply(k, q) \in sent <=>
           k = "unserved" /\ q \in failed /\ req[q].stage = "forwarded"
  BY <1>4 DEF Replies, ServeReply, Reply
<1>8. /\ owed \subseteq HelloReply
      /\ \A x \in owed : x.tab = t /\ life \in asking[t]
      /\ \A k, q : k \in {"served", "unserved"} => Reply(k, q) \notin owed
  BY <1>5, ReadyIs
<1> HIDE DEF failed, owed, sent
<1>9. PagesOK'
  BY <1>2, <1>6, PageChanged DEF BridgeInv
<1>10. /\ page'[t].script # "gone" /\ \A u \in Tab : u # t => page'[u] = page[u]
       /\ \A u \in Tab : page'[u].script # "gone" <=> page[u].script # "gone"
  BY <1>2, <1>6, InvTypes
<1>11. Messages'
  BY <1>2, <1>3, PostedIs DEF Messages, Hello, Serve
<1>12. \A k \in {"served", "unserved"}, q \in Request : Reply(k, q) \in toWorker' =>
          Reply(k, q) \in toWorker \/ (k = "unserved" /\ q \in failed /\ req[q].stage = "forwarded")
  BY <1>2, <1>7, <1>8
<1>13. ASSUME NEW q \in failed
       PROVE  /\ req'[q] \in RequestState /\ req'[q].tab = t
              /\ req'[q].stage = "done" <=> req'[q].result # "none"
              /\ req'[q].asked =
                   IF req'[q].stage = "network" \/ req'[q].result \in {"network", "error"}
                   THEN 1 ELSE 0
              /\ req'[q].stage \notin {"acking", "waiting"}
              /\ req'[q].stage = "forwarded" <=> req[q].stage = "forwarded"
  <2>1. req'[q] = Settle(q, FALSE) /\ q \in transfers /\ req[q].tab = t
    BY <1>2, <1>4
  <2> QED BY <2>1, SettleIs
<1>14. \A q \in Request : q \notin failed => req'[q] = req[q]
  BY <1>2
<1>15. TypeOK'
  <2>1. req' \in [Request -> RequestState] /\ \A q \in Request : req'[q].tab = req[q].tab
    <3>1. \A q \in Request : req'[q] \in RequestState /\ req'[q].tab = req[q].tab
      BY <1>4, <1>13, <1>14, InvTypes
    <3> QED BY <1>2, <3>1
  <2>2. transfers' \subseteq Request /\ toWorker' \subseteq HelloReply \cup ServeReply
    BY <1>2, <1>7, <1>8, InvTypes
  <2> QED BY <1>2, <1>9, <1>11, <2>1, <2>2, InvTypes, PostedIs, TypesNext
<1>16. ASSUME NEW q \in Request PROVE RequestOK(q)'
  <2> DEFINE u == req[q].tab
  <2>1. RequestOK(q) /\ u = req[q].tab /\ u \in Tab
    BY InvTypes DEF BridgeInv
  <2>2. CASE q \notin failed
    <3>1. /\ q \in transfers => page[u].script # "gone"
          /\ req[q].stage \in {"acking", "waiting"} => tabs[u].hello /\ tabs[u].info = "none"
      BY <2>1 DEF RequestOK, Alive
    <3>2. q \in transfers' => q \in transfers /\ page'[u].script # "gone"
      BY <1>2, <1>10, <2>1, <3>1
    <3>3. \A kind \in {"served", "unserved"} : Reply(kind, q) \in toWorker' => Reply(kind, q) \in toWorker
      BY <1>12, <2>2
    <3>4. req'[q] = req[q] /\ (page'[u].script # "gone" => page[u].script # "gone")
      BY <1>10, <1>14, <2>1, <2>2
    <3> HIDE DEF u
    <3> QED BY <1>2, <2>1, <3>1, <3>2, <3>3, <3>4, RequestFrame
\* The reply that tells of the failed transfer is the only trace of its request.
  <2>3. CASE q \in failed
    <3>1. /\ q \in transfers /\ u = t /\ q \notin transfers' /\ Alive(u)
      BY <1>2, <1>4, <1>6, <2>3 DEF Alive
    <3>2. /\ q \notin notFound' /\ Serve(q) \notin toPage'[u]
          /\ \A kind \in {"served", "unserved"} : Reply(kind, q) \notin toWorker
      BY <1>2, <2>1, <3>1 DEF RequestOK
    <3>3. \A kind \in {"served", "unserved"} : Reply(kind, q) \in toWorker' =>
             kind = "unserved" /\ req[q].stage = "forwarded"
      BY <1>12, <3>2
    <3> DEFINE r == req'[q]
    <3>4. /\ r.tab = u
          /\ r.stage = "done" <=> r.result # "none"
          /\ r.asked = IF r.stage = "network" \/ r.result \in {"network", "error"} THEN 1 ELSE 0
          /\ r.stage \notin {"acking", "waiting"}
          /\ r.stage = "forwarded" <=> req[q].stage = "forwarded"
      BY <1>13, <2>3, <3>1
    <3>5. r = req'[q]
      OBVIOUS
    <3> HIDE DEF r, u
    <3> QED BY <3>1, <3>2, <3>3, <3>4, <3>5, RequestNext
  <2> QED BY <2>2, <2>3
<1>17. ASSUME NEW u \in Tab PROVE HelloOK(u)'
  <2>1. \A x \in HelloReply : x \in toWorker' => x \in toWorker \/ (x.tab = t /\ life \in asking[t])
    BY <1>2, <1>7, <1>8, KindsDiffer
  <2>2. CASE u # t \/ life \notin asking[t]
    <3>1. \A x \in HelloReply : x \in toWorker' /\ x.tab = u => x \in toWorker
      BY <2>1, <2>2
    <3>2. HelloOK(u)
      BY DEF BridgeInv
    <3> QED BY <1>2, <1>3, <1>5, <3>1, <3>2, HelloFrame
  <2>3. CASE u = t /\ life \in asking[t]
    <3>1. /\ tabs[t].hello /\ Hello(life) \notin toPage[t] /\ asking[t] \subseteq 1..life
          /\ \A i \in 1..MaxLives : Hello(i) \in toPage[t] => i <= life
      BY <1>5, <2>3 DEF HelloOK
    <3>2. asking'[t] \subseteq 1..life
      BY <1>3, <3>1
    <3> DEFINE told == \E x \in toWorker' : x \in HelloReply /\ x.tab = t
    <3>3. told \in BOOLEAN
      OBVIOUS
    <3>4. (\E x \in toWorker' : x \in HelloReply /\ x.tab = t) => told
      OBVIOUS
    <3> HIDE DEF told
    <3>5. HelloOK(t)'
      BY <1>2, <1>5, <3>1, <3>2, <3>3, <3>4, HelloNext
    <3> QED BY <2>3, <3>5
  <2> QED BY <2>2, <2>3
<1> QED BY <1>9, <1>11, <1>15, <1>16, <1>17 DEF BridgeInv

-----------------------------------------------------------------------------
(* The specification. *)

LEMMA InitBridgeInv == Init => BridgeInv
<1> SUFFICES ASSUME Init PROVE BridgeInv
  OBVIOUS
<1>1. /\ life = 1 /\ tabs = [t \in Tab |-> Unknown]
      /\ req \in [Request -> [tab : Tab, path : {"asset", "odd", "other", "bypass"},
                              asked : {0}, stage : {"new"}, result : {"none"}]]
      /\ toPage = [t \in Tab |-> {}] /\ asking = [t \in Tab |-> {}]
      /\ transfers = {} /\ toWorker = {} /\ notFound = {}
  BY DEF Init
<1>2. PagesOK
  BY PagesInit
<1>3. Messages
  BY <1>1 DEF Messages
<1>4. TypeOK
  <2>1. page \in [Tab -> PageState] /\ life \in 1..MaxLives
    BY <1>1, <1>2, BridgeAssumption DEF PagesOK
  <2>2. tabs \in [Tab -> TabState]
    BY <1>1 DEF Unknown, TabState
  <2>3. req \in [Request -> RequestState]
    BY <1>1 DEF RequestState
  <2> QED BY <1>1, <2>1, <2>2, <2>3 DEF TypeOK
<1>5. ASSUME NEW q \in Request PROVE RequestOK(q)
  <2>1. /\ req[q].asked = 0 /\ req[q].stage = "new" /\ req[q].result = "none" /\ req[q].tab \in Tab
    BY <1>1
  <2> QED BY <1>1, <2>1 DEF RequestOK
<1>6. ASSUME NEW t \in Tab PROVE HelloOK(t)
  BY <1>1 DEF HelloOK, Told
<1> QED BY <1>2, <1>3, <1>4, <1>5, <1>6 DEF BridgeInv

LEMMA NextBridgeInv == BridgeInv /\ [Next]_vars => BridgeInv'
<1> SUFFICES ASSUME BridgeInv, [Next]_vars PROVE BridgeInv'
  OBVIOUS
<1>1. ASSUME NEW q \in Request,
             \/ FetchEvent(q) \/ Find(q) \/ ReadyTimeout(q) \/ Watchdog(q)
             \/ NetworkEnds(q) \/ PageFetch(q) \/ Abort(q) \/ TransferEnds(q)
      PROVE  BridgeInv'
  BY <1>1, FetchEventStep, FindStep, ReadyTimeoutStep, WatchdogStep, NetworkEndsStep,
     PageFetchStep, AbortStep, TransferEndsStep
<1>2. ASSUME NEW t \in Tab, AckTimeout(t) \/ SessionStep(t) \/ Answer(t) \/ TabCloses(t)
      PROVE  BridgeInv'
  BY <1>2, AckTimeoutStep, SessionStepStep, AnswerStep, TabClosesStep
<1>3. ASSUME NEW m \in toWorker, HearHello(m) \/ HearServe(m) PROVE BridgeInv'
  BY <1>3, HearHelloStep, HearServeStep
<1>4. CASE UNCHANGED vars
  <2>1. /\ PagesOK' /\ Messages' /\ TypeOK'
    BY <1>4 DEF vars, BridgeInv, PagesOK, Messages, TypeOK, Of
  <2>2. \A q \in Request : RequestOK(q)'
    BY <1>4 DEF vars, BridgeInv, RequestOK, Alive
  <2>3. \A t \in Tab : HelloOK(t)'
    BY <1>4 DEF vars, BridgeInv, HelloOK, Told
  <2> QED BY <2>1, <2>2, <2>3 DEF BridgeInv
<1> QED BY <1>1, <1>2, <1>3, <1>4, WorkerStopsStep DEF Next

\* The invariant of the worker, the pages and what is under way between them.
THEOREM BridgeInvariant == Spec => []BridgeInv
BY InitBridgeInv, NextBridgeInv, PTL DEF Spec

\* Every variable holds what sw.ts and page.ts give it; a tab has answered no hello
\* that it was not sent.
THEOREM Typed == Spec => []TypeOK
<1>1. BridgeInv => TypeOK
  BY DEF BridgeInv
<1> QED BY <1>1, BridgeInvariant, PTL

\* serve and forward: a request has one outcome, in whatever order the replies, the
\* timers and the ends of tabs and sessions come.
THEOREM OneOutcomeHolds == Spec => []OneOutcome
<1>1. ASSUME BridgeInv, NEW q \in Request
      PROVE  /\ req[q].asked <= 1
             /\ req[q].result = "http4" => req[q].asked = 0
             /\ q \in notFound /\ Alive(req[q].tab) => req[q].asked = 0
  <2>1. RequestOK(q)
    BY <1>1 DEF BridgeInv
  <2> QED BY <2>1 DEF RequestOK
<1>2. BridgeInv => OneOutcome
  BY <1>1 DEF OneOutcome
<1> QED BY <1>2, BridgeInvariant, PTL

\* hello: a life of the worker greets a tab once.
THEOREM OneHelloHolds == Spec => []OneHello
<1>1. ASSUME BridgeInv, NEW t \in Tab
      PROVE  ~(/\ Hello(life) \in toPage[t]
               /\ \/ life \in asking[t] \/ tabs[t].acked = "yes" \/ tabs[t].info # "none"
                  \/ \E m \in toWorker : m \in HelloReply /\ m.tab = t)
  <2>1. HelloOK(t)
    BY <1>1 DEF BridgeInv
  <2> QED BY <2>1 DEF HelloOK, Told
<1>2. BridgeInv => OneHello
  BY <1>1 DEF OneHello
<1> QED BY <1>2, BridgeInvariant, PTL

\* A request that is still looking for its tab moves only when the tab is found.
LEMMA FindingStays ==
    ASSUME BridgeInv, [Next]_vars, NEW q \in Request, req[q].stage = "finding"
    PROVE  req'[q] = req[q] \/ Find(q)
<1>1. q \notin transfers /\ req \in [Request -> RequestState]
  <2>1. RequestOK(q)
    BY DEF BridgeInv
  <2> QED BY <2>1, InvTypes DEF RequestOK
<1>2. ASSUME NEW p \in Request,
             \/ FetchEvent(p) \/ ReadyTimeout(p) \/ Watchdog(p)
             \/ NetworkEnds(p) \/ PageFetch(p) \/ Abort(p) \/ TransferEnds(p)
      PROVE  req'[q] = req[q]
  <2>1. p # q
    BY <1>1, <1>2 DEF FetchEvent, ReadyTimeout, Watchdog, NetworkEnds, PageFetch, Abort, TransferEnds
  <2>2. \E r : req' = [req EXCEPT ![p] = r]
    BY <1>2 DEF FetchEvent, ReadyTimeout, Watchdog, NetworkEnds, PageFetch, Abort, TransferEnds
  <2> QED BY <1>1, <2>1, <2>2
<1>3. ASSUME NEW p \in Request, Find(p), p # q PROVE req'[q] = req[q]
  BY <1>1, <1>3 DEF Find, Resume
<1>4. ASSUME NEW t \in Tab, AckTimeout(t) PROVE req'[q] = req[q]
  BY <1>1, <1>4 DEF AckTimeout, Resume, Waiting
<1>5. ASSUME NEW t \in Tab, SessionStep(t) PROVE req'[q] = req[q]
  BY <1>1, <1>5 DEF SessionStep
<1>6. ASSUME NEW t \in Tab, Answer(t) PROVE req'[q] = req[q]
  BY <1>6 DEF Answer
<1>7. ASSUME NEW t \in Tab, TabCloses(t) PROVE req'[q] = req[q]
  BY <1>1, <1>7 DEF TabCloses
<1>8. ASSUME NEW m \in toWorker, HearHello(m) PROVE req'[q] = req[q]
  BY <1>1, <1>8 DEF HearHello, Resume, Waiting
<1>9. ASSUME NEW m \in toWorker, HearServe(m) PROVE req'[q] = req[q]
  BY <1>1, <1>9 DEF HearServe, Listening
<1>10. WorkerStops \/ UNCHANGED vars => req'[q] = req[q]
  BY DEF WorkerStops, vars
<1> QED BY <1>2, <1>3, <1>4, <1>5, <1>6, <1>7, <1>8, <1>9, <1>10 DEF Next

\* serve: a tab that has told of an open session gets the requests for its assets,
\* whichever of them gave up on it before.
THEOREM ReadyIsHonoredHolds == Spec => ReadyIsHonored
<1>1. ASSUME BridgeInv, [Next]_vars, NEW q \in Request,
             req[q].stage \in {"finding", "acking", "waiting"},
             tabs[req[q].tab].info = "up", req[q].path = "asset", Alive(req[q].tab)
      PROVE  req'[q].stage # "network"
  <2>1. req[q].stage = "finding" /\ req[q] \in RequestState /\ tabs[req[q].tab] \in TabState
    <3>1. RequestOK(q)
      BY <1>1 DEF BridgeInv
    <3> QED BY <1>1, <3>1, InvTypes DEF RequestOK
  <2>2. CASE req'[q] = req[q]
    BY <2>1, <2>2
  <2>3. CASE Find(q)
    <3> DEFINE tab == [tabs[req[q].tab] EXCEPT !.hello = TRUE]
    <3>1. req'[q] = Resumed(req[q], tab)
      BY <1>1, <2>3 DEF Find, Resume
    <3>2. tab \in TabState /\ tab.info = "up"
      BY <1>1, <2>1 DEF TabState
    <3> HIDE DEF tab
    <3> QED BY <1>1, <2>1, <3>1, <3>2, ResumedIs
  <2> QED BY <1>1, <2>1, <2>2, <2>3, FindingStays
<1>2. BridgeInv /\ [Next]_vars =>
        [\A q \in Request :
           LET t == req[q].tab
           IN  /\ req[q].stage \in {"finding", "acking", "waiting"}
               /\ tabs[t].info = "up" /\ req[q].path = "asset" /\ Alive(t)
               => req'[q].stage # "network"]_vars
  BY <1>1
<1> QED BY <1>2, BridgeInvariant, PTL DEF Spec, ReadyIsHonored
=============================================================================
