----------------------------- MODULE Dashboard -----------------------------
(***************************************************************************)
(* The dashboard (src/serve.rs): the responder in the terminal's process,  *)
(* the Kalshi lab beside it (external), and the page in a browser, which   *)
(* asks for the state every second and draws what comes back.              *)
(*                                                                         *)
(* The page does not wait for one answer before it asks again, so answers  *)
(* overlap and may arrive in any order, or never.  Which market to ask for *)
(* is read before the fetch and not looked at again when it returns.       *)
(*                                                                         *)
(* The screen is two parts: the top, up to the first number of the hero,   *)
(* and the rest, from the balance on.  What is in a panel is layout; only  *)
(* the snapshot it was drawn from is kept.  The sparkline's memory feeds   *)
(* nothing else and is left out.                                           *)
(***************************************************************************)
EXTENDS Publish

CONSTANTS
  MaxOpen,       \* bound: fetches open at a time
  MaxLost        \* bound: fetches that never return

ASSUME DashboardAssumption == MaxOpen \in Nat \ {0} /\ MaxLost \in Nat

VARIABLES
  upstream,      \* whether the Kalshi lab answers
  market,        \* MARKET
  switch,        \* whether the switch is shown
  open,          \* the page's open fetches, by connection
  lost,          \* fetches that will never return
  screen         \* what is drawn: top, rest, and whether the banner is shown

page == <<market, switch, open, lost, screen>>
vars == <<publish, upstream, page>>

Kalshi  == -2    \* numbers of the Kalshi lab
Failed  == -3    \* no answer, or one that says "error"
Free    == [path |-> "none"]
Connections == 1 .. MaxOpen

Ask(path) == [path |-> path, reply |-> "waiting"]

\* The page is loaded: it asks once whether a second market is offered.
Init ==
  /\ PublishInit
  /\ upstream \in BOOLEAN
  /\ market = "solana" /\ switch = FALSE /\ lost = 0
  /\ open = [c \in Connections |-> IF c = 1 THEN Ask("load") ELSE Free]
  /\ screen = [top |-> Nothing, rest |-> Nothing, banner |-> FALSE]

path_of(m) == IF m = "kalshi" THEN "/api/beside" ELSE "/api/state"

\* Mutant: the page waits for its last answer.
Tick_Waits ==
  /\ \A c \in Connections : open[c] = Free
  /\ open' = [open EXCEPT ![1] = Ask(path_of(market))]
  /\ UNCHANGED <<publish, upstream, market, switch, lost, screen>>

\* setInterval: the page asks for the market it shows.
Tick ==
  /\ \E c \in Connections :
       open[c] = Free /\ open' = [open EXCEPT ![c] = Ask(path_of(market))]
  /\ UNCHANGED <<publish, upstream, market, switch, lost, screen>>

\* The viewer presses a button of the switch, and the page asks at once.
Click(m) ==
  /\ switch /\ m # market
  /\ market' = m
  /\ \E c \in Connections :
       open[c] = Free /\ open' = [open EXCEPT ![c] = Ask(path_of(m))]
  /\ UNCHANGED <<publish, upstream, switch, lost, screen>>

\* Mutant: every dashboard offers the market beside it.
offers_beside_Always == TRUE

\* Only the race is given --beside.
offers_beside == command = "race"

\* What the lab says, or nothing when it is down or too slow.
fetch_local == IF upstream THEN Kalshi ELSE Failed

\* What the responder sends: the last snapshot shared, what the lab says, or an
\* error.  A program that is down answers nothing.
reply(path) ==
  IF main = "down" THEN Failed
  ELSE IF path = "/api/state" THEN shared
  ELSE IF offers_beside THEN fetch_local ELSE Failed

Serve(c) ==
  /\ open[c] # Free /\ open[c].reply = "waiting"
  /\ open' = [open EXCEPT ![c] = [path |-> @.path, reply |-> "sent", body |-> reply(@.path)]]
  /\ UNCHANGED <<publish, upstream, market, switch, lost, screen>>

\* A fetch that hangs: the tunnel to the browser went away.
Lose(c) ==
  /\ lost < MaxLost
  /\ open[c] # Free /\ open[c].reply # "lost"
  /\ open' = [open EXCEPT ![c] = [path |-> @.path, reply |-> "lost"]]
  /\ lost' = lost + 1
  /\ UNCHANGED <<publish, upstream, market, switch, screen>>

\* tick draws every panel from the snapshot, if it is one: "{}", which a
\* program that has just started answers with, leaves the screen as it is.
draw(n) ==
  IF n > Nothing THEN [top |-> n, rest |-> n, banner |-> command = "rehearse"] ELSE screen

\* renderKalshi hides the banner and draws the top, and throws at the balance:
\* `mine` is read four lines above its declaration.  tick catches the error.
draw_kalshi(body) ==
  IF body = Kalshi THEN [screen EXCEPT !.top = Kalshi, !.banner = FALSE] ELSE screen

\* An answer arrives.
Arrive(c) ==
  /\ open[c] # Free /\ open[c].reply = "sent"
  /\ LET r == open[c]
     IN /\ switch' = (switch \/ (r.path = "load" /\ r.body = Kalshi))
        /\ screen' = IF r.path = "/api/state" THEN draw(r.body)
                     ELSE IF r.path = "/api/beside" THEN draw_kalshi(r.body)
                     ELSE screen
  /\ open' = [open EXCEPT ![c] = Free]
  /\ UNCHANGED <<publish, upstream, market, lost>>

\* The Kalshi lab comes and goes.
UpstreamFlips ==
  /\ upstream' = ~upstream
  /\ UNCHANGED <<publish, page>>

Program == PublishStep /\ UNCHANGED <<upstream, page>>

Next ==
  \/ Program
  \/ Ends /\ UNCHANGED <<upstream, page>>
  \/ UpstreamFlips
  \/ Tick
  \/ \E m \in {"solana", "kalshi"} : Click(m)
  \/ \E c \in Connections : Serve(c) \/ Lose(c) \/ Arrive(c)

\* The ticker fires, systemd restarts the unit, the interval timer of the page
\* fires, and a fetch that is not lost is answered.  Nothing is assumed of the
\* viewer, of crashes or of the Kalshi lab.
Fairness ==
  /\ WF_vars(Program)
  /\ WF_vars(Tick)
  /\ \A c \in Connections : WF_vars(Serve(c)) /\ WF_vars(Arrive(c))

Spec == Init /\ [][Next]_vars /\ Fairness

-----------------------------------------------------------------------------
(* Properties *)

\* Every variable holds a value of its type.
TypeOK ==
  /\ main \in {"up", "down"} /\ market \in {"solana", "kalshi"}
  /\ stage \in {"idle", "composed", "writing", "written", "renamed"}
  /\ tmp \in Partial .. MaxMade /\ out \in Partial .. MaxMade /\ shared \in 0 .. MaxMade
  /\ switch \in BOOLEAN /\ upstream \in BOOLEAN
  /\ screen \in [top : {Kalshi} \cup 0 .. MaxMade, rest : 0 .. MaxMade, banner : BOOLEAN]

\* The snapshot file is only ever replaced by a whole and newer snapshot: who
\* reads it never sees half of one, wherever the program was stopped and
\* whatever temporary file it left behind.
FileIsWhole == [][out' > out]_out

\* What is on the screen, or on its way there, is in the file or older than
\* what is in the file, across crashes and restarts: nothing was ever shown
\* that the record does not have.
FileBacksTheScreen ==
  command = "race" =>
    /\ shared <= out
    /\ screen.rest <= out /\ screen.top <= out
    /\ \A c \in Connections : open[c] # Free /\ open[c].reply = "sent" => open[c].body <= out

\* Numbers that were made up are never on the screen without the banner that
\* says so, whatever is clicked and whatever answer arrives late.
InventedNumbersSaySo ==
  command = "rehearse" /\ (screen.top > Nothing \/ screen.rest > Nothing) => screen.banner

\* The page catches up: once the program stays up, the viewer stays on its
\* market and the last snapshot is shared, the whole screen is drawn from that
\* snapshot and stays so, also when a fetch was lost and after a restart.
ScreenSettles ==
  \A n \in 1 .. MaxMade :
    <>[](main = "up" /\ market = "solana" /\ shared = n)
      => <>[](screen.top = n /\ screen.rest = n)

\* What the page says of the switch: "Its numbers are read through /api/beside
\* and rendered here in the same language".  A viewer who stays on the other
\* market while it answers must get to see it, on the whole screen.
SwitchTakesEffect ==
  <>[](main = "up" /\ market = "kalshi" /\ upstream)
    => <>(screen.top = Kalshi /\ screen.rest = Kalshi)
=============================================================================
