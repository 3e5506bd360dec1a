--------------------------- MODULE DashboardProofs ---------------------------
(***************************************************************************)
(* The snapshot file is replaced whole or not at all, the screen never     *)
(* shows what the file does not back, and a rehearsal's numbers never lose *)
(* their banner: for any number of snapshots, crashes and open fetches.    *)
(***************************************************************************)
EXTENDS Dashboard, TLAPS

\* What an answer may hold, and what a connection of the page may be.
Bodies  == {Kalshi, Failed} \cup 0 .. MaxMade
Paths   == {"load", "/api/state", "/api/beside"}
Fetches == {Free} \cup [path : Paths, reply : {"waiting", "lost"}]
                  \cup [path : Paths, reply : {"sent"}, body : Bodies]

IsSent(c) == open[c] # Free /\ open[c].reply = "sent"

\* The program's side of the invariant.  The snapshot in hand is newer than
\* the file from the moment it is composed until it is renamed, and it is
\* what the temporary file holds just before: a crash leaves `stage` where it
\* was, and a restart starts over with the file only.
PublishInv ==
  /\ command \in {"race", "rehearse"} /\ main \in {"up", "down"}
  /\ stage \in {"idle", "composed", "writing", "written", "renamed"}
  /\ made \in 0 .. MaxMade /\ tmp \in Partial .. MaxMade
  /\ out \in 0 .. made /\ shared \in 0 .. made
  /\ stage \in {"composed", "writing", "written"} => out < made
  /\ stage = "written" => tmp = made
  /\ stage = "renamed" => out = made
  /\ command = "race" => shared <= out
  /\ command = "rehearse" => stage = "idle"   \* a rehearsal writes no file

PageTypeOK ==
  /\ market \in {"solana", "kalshi"}
  /\ switch \in BOOLEAN /\ upstream \in BOOLEAN
  /\ open \in [Connections -> Fetches]
  /\ screen \in [top : {Kalshi} \cup 0 .. MaxMade, rest : 0 .. MaxMade, banner : BOOLEAN]

\* A rehearsal is never offered the other market, so no fetch of it is open
\* and no answer that could hide the banner is on its way.
RehearsalAlone ==
  command = "rehearse" =>
    /\ market = "solana" /\ ~switch
    /\ \A c \in Connections :
         /\ open[c].path # "/api/beside"
         /\ IsSent(c) => open[c].body # Kalshi

DashboardInv ==
  PublishInv /\ PageTypeOK /\ RehearsalAlone /\ FileBacksTheScreen /\ InventedNumbersSaySo

\* Every snapshot and every kind of answer is a number.
LEMMA Numbers ==
  /\ Kalshi \in Int /\ Failed \in Int /\ Nothing = 0 /\ Partial \in Int
  /\ Kalshi < 0 /\ Failed < 0 /\ Kalshi # Failed
  /\ Bodies \subseteq Int
  /\ Free \in Fetches /\ \A p \in Paths : Ask(p) \in Fetches /\ Ask(p) # Free
  BY PublishAssumption DEF Kalshi, Failed, Nothing, Partial, Bodies, Free, Fetches, Ask

\* The dashboard starts in the invariant.
LEMMA DashboardInit == Init => DashboardInv
<1> SUFFICES ASSUME Init PROVE DashboardInv
  OBVIOUS
<1>1. PublishInv
  BY PublishAssumption DEF Init, PublishInit, PublishInv, Nothing, Partial
<1>2. PageTypeOK
  <2>1. open \in [Connections -> Fetches]
    BY Numbers DEF Init, Paths
  <2>2. screen \in [top : {Kalshi} \cup 0 .. MaxMade, rest : 0 .. MaxMade, banner : BOOLEAN]
    BY PublishAssumption DEF Init, Nothing
  <2> QED BY <2>1, <2>2 DEF Init, PageTypeOK
<1>3. \A c \in Connections : ~IsSent(c) /\ open[c].path # "/api/beside"
  BY DEF Init, IsSent, Ask, Free
<1>4. FileBacksTheScreen
  BY <1>3, Numbers DEF Init, PublishInit, FileBacksTheScreen, IsSent
<1> QED
  BY <1>1, <1>2, <1>3, <1>4, Numbers
  DEF DashboardInv, RehearsalAlone, InventedNumbersSaySo, Init

\* What a step of the program does: the invariant is kept, the file only ever
\* grows, and what is shared only grows with it or starts over.
LEMMA ProgramStep ==
  ASSUME PublishInv, PublishStep \/ Ends
  PROVE  PublishInv' /\ command' = command /\ out' >= out /\ (out' # out => out' > out)
<1> USE PublishAssumption DEF PublishInv, Partial, Nothing, At
<1>1. CASE Compose
  BY <1>1 DEF Compose
<1>2. CASE WriteBegins
  BY <1>2 DEF WriteBegins
<1>3. CASE WriteEnds
  BY <1>3 DEF WriteEnds
<1>4. CASE Rename
  BY <1>4 DEF Rename
<1>5. CASE Share
  BY <1>5 DEF Share
<1>6. CASE RehearsalStep
  BY <1>6 DEF RehearsalStep
<1>7. CASE Restart
  BY <1>7 DEF Restart
<1>8. CASE Ends
  BY <1>8 DEF Ends
<1> QED
  BY <1>1, <1>2, <1>3, <1>4, <1>5, <1>6, <1>7, <1>8 DEF PublishStep

\* A step of the program leaves the page alone; what it shows stays backed.
LEMMA ProgramKeeps ==
  ASSUME DashboardInv, PublishStep \/ Ends, UNCHANGED <<upstream, page>>
  PROVE  DashboardInv'
<1>1. PublishInv' /\ command' = command /\ out' >= out
  BY ProgramStep DEF DashboardInv
<1>2. PageTypeOK' /\ RehearsalAlone' /\ InventedNumbersSaySo'
  BY <1>1 DEF DashboardInv, PageTypeOK, RehearsalAlone, InventedNumbersSaySo, page, IsSent
<1>3. FileBacksTheScreen'
  <2> SUFFICES ASSUME command = "race"
               PROVE  /\ shared' <= out' /\ screen.rest <= out' /\ screen.top <= out'
                      /\ \A c \in Connections : IsSent(c) => open[c].body <= out'
    BY <1>1 DEF FileBacksTheScreen, page, IsSent
  <2>1. shared' <= out'
    BY <1>1 DEF PublishInv
  <2>2. out \in Int /\ out' \in Int /\ screen.rest \in Int /\ screen.top \in Int
    BY <1>1, Numbers, PublishAssumption DEF DashboardInv, PublishInv, PageTypeOK
  <2>3. \A c \in Connections : IsSent(c) => open[c].body \in Int
    BY Numbers DEF DashboardInv, PageTypeOK, Fetches, IsSent, Free
  <2>4. /\ screen.rest <= out /\ screen.top <= out
        /\ \A c \in Connections : IsSent(c) => open[c].body <= out
    BY DEF DashboardInv, FileBacksTheScreen, IsSent
  <2> QED BY <1>1, <2>1, <2>2, <2>3, <2>4
<1> QED BY <1>1, <1>2, <1>3 DEF DashboardInv

\* The page opens a fetch: what is on its way is what it was.
LEMMA AskKeeps ==
  ASSUME DashboardInv, NEW p \in Paths, NEW c \in Connections,
         open[c] = Free, open' = [open EXCEPT ![c] = Ask(p)],
         market' \in {"solana", "kalshi"},
         command = "rehearse" => market' = "solana" /\ p # "/api/beside",
         UNCHANGED <<publish, upstream, switch, lost, screen>>
  PROVE  DashboardInv'
<1>1. open \in [Connections -> Fetches] /\ Ask(p) \in Fetches
  BY Numbers DEF DashboardInv, PageTypeOK
<1>2. /\ \A d \in Connections : open'[d] = IF d = c THEN Ask(p) ELSE open[d]
      /\ open' \in [Connections -> Fetches]
  BY <1>1
<1>3. Ask(p).path = p /\ Ask(p).reply # "sent"
  BY DEF Ask
<1>4. \A d \in Connections : IsSent(d)' => IsSent(d) /\ open'[d] = open[d]
  BY <1>2, <1>3 DEF IsSent
<1>5. PublishInv' /\ PageTypeOK'
  BY <1>2 DEF DashboardInv, PublishInv, PageTypeOK, publish
<1>6. RehearsalAlone'
  BY <1>2, <1>3, <1>4 DEF DashboardInv, RehearsalAlone, publish
<1>7. FileBacksTheScreen' /\ InventedNumbersSaySo'
  BY <1>4 DEF DashboardInv, FileBacksTheScreen, InventedNumbersSaySo, publish, IsSent
<1> QED BY <1>5, <1>6, <1>7 DEF DashboardInv

\* The page's clock and the viewer open fetches of the market shown.
LEMMA TickKeeps == DashboardInv /\ Tick => DashboardInv'
<1> SUFFICES ASSUME DashboardInv, Tick PROVE DashboardInv'
  OBVIOUS
<1>1. PICK c \in Connections : open[c] = Free /\ open' = [open EXCEPT ![c] = Ask(path_of(market))]
  BY DEF Tick
<1>2. path_of(market) \in Paths /\ market \in {"solana", "kalshi"}
  BY DEF path_of, Paths, DashboardInv, PageTypeOK
<1>3. command = "rehearse" => market = "solana" /\ path_of(market) # "/api/beside"
  BY DEF DashboardInv, RehearsalAlone, path_of
<1> QED BY <1>1, <1>2, <1>3, AskKeeps DEF Tick

\* Switching the market leaves a screen that is labelled and backed by the file.
LEMMA ClickKeeps ==
  ASSUME DashboardInv, NEW m \in {"solana", "kalshi"}, Click(m)
  PROVE  DashboardInv'
<1>1. PICK c \in Connections : open[c] = Free /\ open' = [open EXCEPT ![c] = Ask(path_of(m))]
  BY DEF Click
<1>2. path_of(m) \in Paths
  BY DEF path_of, Paths
<1>3. command # "rehearse" /\ market' = m
  BY DEF DashboardInv, RehearsalAlone, Click
<1> QED BY <1>1, <1>2, <1>3, AskKeeps DEF Click

\* What the responder sends is backed by the file, and a rehearsal's responder
\* never sends the other market's numbers.
LEMMA ReplyBacked ==
  ASSUME DashboardInv, NEW p
  PROVE  /\ reply(p) \in Bodies
         /\ command = "race" => reply(p) <= out
         /\ command = "rehearse" => reply(p) # Kalshi
<1>1. shared \in 0 .. MaxMade /\ out \in 0 .. MaxMade
  BY PublishAssumption DEF DashboardInv, PublishInv
<1>2. command = "race" => shared <= out
  BY DEF DashboardInv, PublishInv
<1>3. reply(p) = shared \/ reply(p) = Failed \/ (command = "race" /\ reply(p) = Kalshi)
  BY DEF reply, fetch_local, offers_beside
<1> QED BY <1>1, <1>2, <1>3, Numbers, PublishAssumption DEF Bodies

\* The answer to one fetch is sent.
LEMMA ServeKeeps ==
  ASSUME DashboardInv, NEW c \in Connections, Serve(c)
  PROVE  DashboardInv'
<1> DEFINE sent == [path |-> open[c].path, reply |-> "sent", body |-> reply(open[c].path)]
<1>1. open \in [Connections -> Fetches] /\ open[c] # Free
  BY DEF DashboardInv, PageTypeOK, Serve
<1>2. /\ reply(open[c].path) \in Bodies
      /\ command = "race" => reply(open[c].path) <= out
      /\ command = "rehearse" => reply(open[c].path) # Kalshi
  BY ReplyBacked
<1>3. open[c].path \in Paths
  BY <1>1 DEF Fetches
<1>4. sent \in Fetches
  BY <1>2, <1>3 DEF Fetches
<1>5. /\ sent.path = open[c].path
      /\ command = "race" => sent.body <= out
      /\ command = "rehearse" => sent.body # Kalshi
  BY <1>2
<1>6. open' = [open EXCEPT ![c] = sent]
  BY DEF Serve
<1> HIDE DEF sent
<1>7. /\ \A d \in Connections : open'[d] = IF d = c THEN sent ELSE open[d]
      /\ open' \in [Connections -> Fetches]
  BY <1>1, <1>4, <1>6
<1>8. PublishInv' /\ PageTypeOK'
  BY <1>7 DEF DashboardInv, PublishInv, PageTypeOK, publish, Serve
<1>9. RehearsalAlone'
  BY <1>5, <1>7 DEF DashboardInv, RehearsalAlone, publish, Serve, IsSent
<1>10. FileBacksTheScreen' /\ InventedNumbersSaySo'
  BY <1>5, <1>7 DEF DashboardInv, FileBacksTheScreen, InventedNumbersSaySo, publish, Serve
<1> QED BY <1>8, <1>9, <1>10 DEF DashboardInv

\* A fetch is lost.
LEMMA LoseKeeps ==
  ASSUME DashboardInv, NEW c \in Connections, Lose(c)
  PROVE  DashboardInv'
<1> DEFINE gone == [path |-> open[c].path, reply |-> "lost"]
<1>1. open \in [Connections -> Fetches] /\ open[c] # Free
  BY DEF DashboardInv, PageTypeOK, Lose
<1>2. gone \in Fetches /\ gone.path = open[c].path /\ gone.reply # "sent"
  BY <1>1 DEF Fetches
<1>3. open' = [open EXCEPT ![c] = gone]
  BY DEF Lose
<1> HIDE DEF gone
<1>4. /\ \A d \in Connections : open'[d] = IF d = c THEN gone ELSE open[d]
      /\ open' \in [Connections -> Fetches]
  BY <1>1, <1>2, <1>3
<1>5. PublishInv' /\ PageTypeOK'
  BY <1>4 DEF DashboardInv, PublishInv, PageTypeOK, publish, Lose
<1>6. RehearsalAlone'
  BY <1>2, <1>4 DEF DashboardInv, RehearsalAlone, publish, Lose, IsSent
<1>7. FileBacksTheScreen' /\ InventedNumbersSaySo'
  BY <1>2, <1>4 DEF DashboardInv, FileBacksTheScreen, InventedNumbersSaySo, publish, Lose
<1> QED BY <1>5, <1>6, <1>7 DEF DashboardInv

\* What an answer draws: the screen stays, or is drawn from a snapshot with the
\* banner a rehearsal calls for, or shows the other market at its top.
LEMMA ArriveDraws ==
  ASSUME DashboardInv, NEW c \in Connections, Arrive(c)
  PROVE  \/ screen' = screen
         \/ \E n \in 1 .. MaxMade :
              /\ screen' = [top |-> n, rest |-> n, banner |-> command = "rehearse"]
              /\ n = open[c].body
         \/ screen' = [screen EXCEPT !.top = Kalshi, !.banner = FALSE] /\ command = "race"
<1>1. open[c] \in [path : Paths, reply : {"sent"}, body : Bodies]
  BY DEF DashboardInv, PageTypeOK, Arrive, Fetches
<1> DEFINE n == open[c].body
<1>2. n \in Bodies
  BY <1>1
<1>3. CASE open[c].path = "/api/state"
  <2>1. screen' = draw(n)
    BY <1>3 DEF Arrive
  <2>2. CASE n > Nothing
    BY <1>2, <2>1, <2>2, Numbers, PublishAssumption DEF draw, Bodies
  <2>3. CASE ~(n > Nothing)
    BY <2>1, <2>3 DEF draw
  <2> QED BY <2>2, <2>3
<1>4. CASE open[c].path = "/api/beside"
  <2>1. screen' = draw_kalshi(n)
    BY <1>4 DEF Arrive
  <2>2. command = "race"
    BY <1>4 DEF DashboardInv, RehearsalAlone, PublishInv
  <2> QED BY <2>1, <2>2 DEF draw_kalshi
<1>5. CASE open[c].path = "load"
  BY <1>5 DEF Arrive
<1> QED BY <1>1, <1>3, <1>4, <1>5 DEF Paths

\* So does an answer, whichever fetch it belongs to.
LEMMA ArriveKeeps ==
  ASSUME DashboardInv, NEW c \in Connections, Arrive(c)
  PROVE  DashboardInv'
<1>1. open \in [Connections -> Fetches] /\ IsSent(c)
  BY DEF DashboardInv, PageTypeOK, Arrive, IsSent
<1>2. /\ \A d \in Connections : open'[d] = IF d = c THEN Free ELSE open[d]
      /\ open' \in [Connections -> Fetches]
  BY <1>1, Numbers DEF Arrive
<1>3. \A d \in Connections : IsSent(d)' => IsSent(d) /\ open'[d] = open[d]
  BY <1>2 DEF IsSent
<1>4. Free.path # "/api/beside"
  BY DEF Free
<1>5. command = "rehearse" => switch' = FALSE
  BY <1>1 DEF DashboardInv, RehearsalAlone, Arrive, IsSent
<1>6. RehearsalAlone'
  BY <1>2, <1>3, <1>4, <1>5 DEF DashboardInv, RehearsalAlone, publish, Arrive
<1>7. screen' \in [top : {Kalshi} \cup 0 .. MaxMade, rest : 0 .. MaxMade, banner : BOOLEAN]
  <2>1. screen \in [top : {Kalshi} \cup 0 .. MaxMade, rest : 0 .. MaxMade, banner : BOOLEAN]
    BY DEF DashboardInv, PageTypeOK
  <2>2. ASSUME NEW n \in 1 .. MaxMade,
               screen' = [top |-> n, rest |-> n, banner |-> command = "rehearse"]
        PROVE  screen' \in [top : {Kalshi} \cup 0 .. MaxMade, rest : 0 .. MaxMade,
                            banner : BOOLEAN]
    <3>1. n \in 0 .. MaxMade
      BY PublishAssumption
    <3> QED BY <2>2, <3>1
  <2> QED BY <2>1, <2>2, ArriveDraws
<1>8. PublishInv' /\ PageTypeOK'
  BY <1>2, <1>7 DEF DashboardInv, PublishInv, PageTypeOK, publish, Arrive
<1>9. FileBacksTheScreen'
  <2> SUFFICES ASSUME command = "race"
               PROVE  /\ shared <= out /\ screen'.rest <= out /\ screen'.top <= out
                      /\ \A d \in Connections : IsSent(d) => open[d].body <= out
    BY <1>3 DEF FileBacksTheScreen, publish, Arrive, IsSent
  <2>1. /\ shared <= out /\ screen.rest <= out /\ screen.top <= out
        /\ \A d \in Connections : IsSent(d) => open[d].body <= out
    BY DEF DashboardInv, FileBacksTheScreen, IsSent
  <2>2. Kalshi <= out
    BY Numbers DEF DashboardInv, PublishInv
  <2>3. screen \in [top : {Kalshi} \cup 0 .. MaxMade, rest : 0 .. MaxMade, banner : BOOLEAN]
    BY DEF DashboardInv, PageTypeOK
  <2>4. CASE screen' = screen
    BY <2>1, <2>4
  <2>5. ASSUME NEW n, n = open[c].body,
               screen' = [top |-> n, rest |-> n, banner |-> command = "rehearse"]
        PROVE  screen'.rest <= out /\ screen'.top <= out
    BY <1>1, <2>1, <2>5
  <2>6. CASE screen' = [screen EXCEPT !.top = Kalshi, !.banner = FALSE]
    BY <2>1, <2>2, <2>3, <2>6
  <2> QED BY <2>1, <2>4, <2>5, <2>6, ArriveDraws
<1>10. InventedNumbersSaySo'
  <2> SUFFICES ASSUME command = "rehearse", screen'.top > Nothing \/ screen'.rest > Nothing
               PROVE  screen'.banner
    BY DEF InventedNumbersSaySo, Arrive, publish
  <2>1. CASE screen' = screen
    BY <2>1 DEF DashboardInv, InventedNumbersSaySo
  <2>2. ASSUME NEW n, screen' = [top |-> n, rest |-> n, banner |-> command = "rehearse"]
        PROVE  screen'.banner
    BY <2>2
  <2> QED BY <2>1, <2>2, ArriveDraws
<1> QED BY <1>6, <1>8, <1>9, <1>10 DEF DashboardInv

\* Every step keeps the invariant.
LEMMA DashboardStep == DashboardInv /\ [Next]_vars => DashboardInv'
<1> SUFFICES ASSUME DashboardInv, [Next]_vars PROVE DashboardInv'
  OBVIOUS
<1>1. CASE Program \/ (Ends /\ UNCHANGED <<upstream, page>>)
  BY <1>1, ProgramKeeps DEF Program
<1>2. CASE UpstreamFlips
  BY <1>2 DEF UpstreamFlips, publish, page, DashboardInv, PublishInv, PageTypeOK,
              RehearsalAlone, FileBacksTheScreen, InventedNumbersSaySo, IsSent
<1>3. CASE UNCHANGED vars
  BY <1>3 DEF vars, publish, page, DashboardInv, PublishInv, PageTypeOK,
              RehearsalAlone, FileBacksTheScreen, InventedNumbersSaySo, IsSent
<1> QED
  BY <1>1, <1>2, <1>3, TickKeeps, ClickKeeps, ServeKeeps, LoseKeeps, ArriveKeeps DEF Next

\* The invariant holds in every state the terminal and its page reach.
THEOREM DashboardInvariant == Spec => []DashboardInv
  BY DashboardInit, DashboardStep, PTL DEF Spec

\* Every variable keeps its type.
THEOREM DashboardTypeCorrect == Spec => []TypeOK
<1>1. DashboardInv => TypeOK
  BY PublishAssumption DEF DashboardInv, PublishInv, PageTypeOK, TypeOK, Partial
<1> QED BY DashboardInvariant, <1>1, PTL

\* write_snapshot: the file is only ever replaced by a whole and newer
\* snapshot, wherever the program was stopped before.
THEOREM DashboardFileIsWhole == Spec => FileIsWhole
<1>1. DashboardInv /\ [Next]_vars => [out' > out]_out
  <2> SUFFICES ASSUME DashboardInv, [Next]_vars, out' # out PROVE out' > out
    OBVIOUS
  <2>1. PublishStep \/ Ends
    BY DEF Next, vars, publish, Program, UpstreamFlips, Tick, Click, Serve, Lose, Arrive
  <2> QED BY <2>1, ProgramStep DEF DashboardInv
<1> QED BY DashboardInvariant, <1>1, PTL DEF Spec, FileIsWhole

\* run_race: nothing is shown, or on its way to be shown, that the file does
\* not already have, across crashes, restarts and answers out of order.
THEOREM DashboardFileBacksTheScreen == Spec => []FileBacksTheScreen
<1>1. DashboardInv => FileBacksTheScreen
  BY DEF DashboardInv
<1> QED BY DashboardInvariant, <1>1, PTL

\* run_rehearsal: made-up numbers are never on the screen without the banner.
THEOREM DashboardInventedNumbersSaySo == Spec => []InventedNumbersSaySo
<1>1. DashboardInv => InventedNumbersSaySo
  BY DEF DashboardInv
<1> QED BY DashboardInvariant, <1>1, PTL
=============================================================================
