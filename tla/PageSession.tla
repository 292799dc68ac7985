---------------------------- MODULE PageSession ----------------------------
(***************************************************************************)
(* How a tab gets its HTTP4 session: auto.ts and page.ts install, open and *)
(* openSession of index.ts, and Http4Client.connect.  The configuration,   *)
(* the handshake and the connect timeout end in any order; a page may have *)
(* started the handshake itself before the script ran.                     *)
(***************************************************************************)
EXTENDS Naturals

CONSTANT
    Tab    \* the tabs of the site

VARIABLE
    page    \* each tab: its script, its opened promise, its WebTransport

\* script: whether install ran (a bare page carries no HTTP4 script); opened:
\* the promise of open(); tried: whether Http4Client.connect was called; client:
\* whether the handle has a session; inline: the page itself started wt.
PageState ==
    [script : {"loading", "installed", "bare", "gone"}, disabled : BOOLEAN,
     opened : {"not yet", "config", "connecting", "settled"},
     tried : BOOLEAN, client : BOOLEAN, inline : BOOLEAN,
     wt : {"none", "connecting", "open", "failed", "closed"}]

Loading(inline) ==
    [script |-> "loading", disabled |-> FALSE, opened |-> "not yet", tried |-> FALSE,
     client |-> FALSE, inline |-> inline, wt |-> IF inline THEN "connecting" ELSE "none"]

\* A page may start the handshake in its HTML, before the script (auto.ts).
PageInit == page \in [Tab -> {Loading(inline) : inline \in BOOLEAN}]

IsOpen(p)  == p.client /\ p.wt = "open"       \* Http4.available
Settled(p) == p.opened = "settled"

-----------------------------------------------------------------------------
(* Each operator gives the pages that one callback may leave behind. *)

Without(p) == [p EXCEPT !.opened = "settled", !.client = FALSE]

\* connect awaits the WebTransport that the page started, if it did, or a new one.
Connect(p) ==
    LET wt == IF p.inline THEN p.wt ELSE "connecting"
    IN  [p EXCEPT !.tried  = TRUE, !.wt = wt,
                  !.opened = IF wt = "connecting" THEN "connecting" ELSE "settled",
                  !.client = wt \in {"open", "closed"}]

\* A disabled page gets a handle that never opens a session.
Disabled(p) == Without([p EXCEPT !.disabled = TRUE])

\* install, or a page without the script; an inline configuration saves fetching one.
Install(p) ==
    LET q == [p EXCEPT !.script = "installed"]
    IN  IF p.script # "loading" THEN {}
        ELSE {[p EXCEPT !.script = "bare"], Disabled(q), [q EXCEPT !.opened = "config"], Connect(q)}

\* The configuration is read, or is missing, malformed or names no https URL, or
\* the browser has no WebTransport.
Configured(p) == IF p.opened = "config" THEN {Connect(p), Without(p)} ELSE {}

\* The handshake succeeds: a session that comes after the timeout is closed.
\* (The first is a mutant: it is left open.)
LateKept(p) == [p EXCEPT !.wt = "open", !.client = p.opened = "connecting",
                         !.opened = IF p.tried THEN "settled" ELSE @]
Arrived(p)  == [p EXCEPT !.wt = IF p.tried /\ Settled(p) THEN "closed" ELSE "open",
                         !.client = p.opened = "connecting",
                         !.opened = IF p.tried THEN "settled" ELSE @]
Refused(p)  == LET q == [p EXCEPT !.wt = "failed"]
               IN  IF p.opened = "connecting" THEN Without(q) ELSE q

Handshake(p) == IF p.wt = "connecting" THEN {Arrived(p), Refused(p)} ELSE {}

TimedOut(p) == IF p.opened = "connecting" THEN {Without(p)} ELSE {}

\* The session ends: close(), the server, or the path.
Ended(p) == IF p.wt = "open" THEN {[p EXCEPT !.wt = "closed"]} ELSE {}

Moves(p) == IF p.script = "gone" THEN {}
            ELSE Install(p) \cup Configured(p) \cup Handshake(p) \cup TimedOut(p) \cup Ended(p)

\* The tab is closed, and its sessions with it.
Gone(p) == [p EXCEPT !.script = "gone", !.wt = IF @ = "none" THEN @ ELSE "closed"]
=============================================================================
