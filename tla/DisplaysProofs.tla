---------------------------- MODULE DisplaysProofs -----------------------------
(***************************************************************************)
(* The two displays, for every latency, threshold, stale_seconds and poll  *)
(* interval the configuration accepts.                                     *)
(***************************************************************************)
EXTENDS Displays, TLAPS

Latency(k) == [ms : Latencies[k] \cup {None}, age : 0 .. Retention]

\* How long ago each display was painted bounds the age of what it still shows.
TrayIsRecent ==
  /\ tray.symbol \in Bands \/ tray.country =>
       row["warm"].age <= Stale["warm"] + (TrayPoll - trayLeft)
  /\ \A k \in Kinds : tray.item[k] = "ms" => row[k].age <= Stale[k] + (TrayPoll - trayLeft)
TuiIsRecent ==
  \A k \in Kinds : tui.item[k] \in Bands => row[k].age <= Stale[k] + (TuiPoll - tuiLeft)

IInv ==
  /\ TypeOK
  /\ row = [k \in Kinds |-> row[k]]
  /\ TrayIsRecent
  /\ TuiIsRecent

--------------------------------------------------------------------------------
\* What the configuration accepts, thresholds in order and rows kept past stale_seconds.
LEMMA ConstantTypes ==
  /\ "warm" \in Kinds /\ "cold" \in Kinds
  /\ TrayPoll \in Nat /\ TuiPoll \in Nat /\ TrayPoll > 0 /\ TuiPoll > 0 /\ Retention \in Int
  /\ \A k \in Kinds :
       /\ Latencies[k] \subseteq Nat /\ Stale[k] \in Nat /\ Ok[k] \in Nat /\ Slow[k] \in Nat
       /\ Ok[k] < Slow[k]
       /\ Retention > Stale[k] + TrayPoll
BY DisplaysAssumption DEF Kinds

\* A latest row, and the stand-in for none.
LEMMA RowTypes ==
  ASSUME TypeOK, NEW k \in Kinds
  PROVE  /\ row[k].age \in Int
         /\ row[k] = NoRow => row[k].age = 0
         /\ row[k] # NoRow => row[k].ms \in Nat \cup {None}
         /\ ~ IsStale(k) => row[k].age <= Stale[k]
PROOF
  <1>1. row[k] = NoRow \/ row[k] \in Latency(k)
    BY DEF TypeOK, Latency
  <1> QED BY <1>1, ConstantTypes DEF NoRow, Latency, IsStale

\* Whatever is painted as a figure, a band or a country is of a row that is not
\* stale.
LEMMA ViewsAreFresh ==
  ASSUME TypeOK
  PROVE  /\ TrayView.symbol \in Bands \cup {"waiting", "stale"}
         /\ TrayView.country => TrayView.symbol \in Bands
         /\ TrayView.symbol \in Bands => ~ IsStale("warm")
         /\ \A k \in Kinds : TrayView.item[k] = "ms" => ~ IsStale(k)
         /\ \A k \in Kinds : TuiView.item[k] \in Bands => ~ IsStale(k)
PROOF
  <1>1. /\ TrayView.symbol = Symbol /\ TrayView.country = Country
        /\ \A k \in Kinds : TrayView.item[k] = TrayItem(k) /\ TuiView.item[k] = TuiItem(k)
    BY DEF TrayView, TuiView
  <1>2. \A ms : WarmBand(ms) \in Bands
    BY DEF WarmBand, Bands
  <1>3. Symbol \in Bands \cup {"waiting", "stale"} /\ (Symbol \in Bands => ~ IsStale("warm"))
    BY <1>2 DEF Symbol, Bands, IsStale
  <1>4. Country => Symbol \in Bands
    BY <1>2 DEF Country, Symbol
  <1>5. \A k \in Kinds : TrayItem(k) = "ms" => ~ IsStale(k)
    BY DEF TrayItem
  <1>6. \A k \in Kinds : TuiItem(k) \in Bands => ~ IsStale(k)
    BY DEF TuiItem, Bands
  <1> QED BY <1>1, <1>3, <1>4, <1>5, <1>6

\* Rows become younger, or go: nothing shown becomes older by it.
LEMMA RowsPreserve ==
  ASSUME IInv, UNCHANGED displayVars,
         row' = [k \in Kinds |-> row'[k]],
         \A k \in Kinds :
           row'[k] = row[k] \/ row'[k] \in {NoRow} \cup {r \in Latency(k) : r.age = 0},
         alive' \in BOOLEAN, ip' \in Ips
  PROVE  IInv'
PROOF
  <1>1. tray' = tray /\ tui' = tui /\ trayLeft' = trayLeft /\ tuiLeft' = tuiLeft
    BY DEF displayVars
  <1>2. \A k \in Kinds : row'[k].age = row[k].age \/ row'[k].age = 0
    BY DEF NoRow
  <1>3. TypeOK'
    BY <1>1 DEF IInv, TypeOK, Latency
  <1>4. \A k \in Kinds : 0 <= Stale[k] + (TrayPoll - trayLeft)
                          /\ 0 <= Stale[k] + (TuiPoll - tuiLeft)
    BY ConstantTypes DEF IInv, TypeOK
  <1>5. TrayIsRecent' /\ TuiIsRecent'
    BY <1>1, <1>2, <1>4, ConstantTypes DEF IInv, TrayIsRecent, TuiIsRecent
  <1> QED BY <1>3, <1>5 DEF IInv

\* A poll repaints from rows it has looked at, and sets its timer.
LEMMA TrayRefreshPreserves == IInv /\ TrayRefresh => IInv'
PROOF
  <1> SUFFICES ASSUME IInv, TrayRefresh PROVE IInv'
    OBVIOUS
  <1>1. trayLeft' = TrayPoll /\ tray' = TrayView /\ UNCHANGED <<alive, row, ip, tui, tuiLeft>>
    BY DEF TrayRefresh
  <1>2. TypeOK'
    BY <1>1, ViewsAreFresh, ConstantTypes DEF IInv, TypeOK
  <1>3. TrayIsRecent'
    <2>1. \A k \in Kinds : ~ IsStale(k) => row[k].age <= Stale[k] + (TrayPoll - TrayPoll)
      BY RowTypes, ConstantTypes DEF IInv
    <2> QED BY <1>1, <2>1, ViewsAreFresh, ConstantTypes DEF IInv, TrayIsRecent
  <1>4. TuiIsRecent'
    BY <1>1 DEF IInv, TuiIsRecent
  <1> QED BY <1>1, <1>2, <1>3, <1>4 DEF IInv

\* The same for the dashboard's status line.
LEMMA TuiRefreshPreserves == IInv /\ TuiRefresh => IInv'
PROOF
  <1> SUFFICES ASSUME IInv, TuiRefresh PROVE IInv'
    OBVIOUS
  <1>1. tuiLeft' = TuiPoll /\ tui' = TuiView /\ UNCHANGED <<alive, row, ip, tray, trayLeft>>
    BY DEF TuiRefresh
  <1>2. TypeOK'
    BY <1>1, ConstantTypes DEF IInv, TypeOK
  <1>3. TuiIsRecent'
    <2>1. \A k \in Kinds : ~ IsStale(k) => row[k].age <= Stale[k] + (TuiPoll - TuiPoll)
      BY RowTypes, ConstantTypes DEF IInv
    <2> QED BY <1>1, <2>1, ViewsAreFresh DEF IInv, TuiIsRecent
  <1>4. TrayIsRecent'
    BY <1>1 DEF IInv, TrayIsRecent
  <1> QED BY <1>1, <1>2, <1>3, <1>4 DEF IInv

\* Time takes from the next poll what it adds to the rows.
LEMMA TickPreserves == IInv /\ Tick => IInv'
PROOF
  <1> SUFFICES ASSUME IInv, Tick PROVE IInv'
    OBVIOUS
  <1>1. /\ trayLeft > 0 /\ tuiLeft > 0 /\ trayLeft' = trayLeft - 1 /\ tuiLeft' = tuiLeft - 1
        /\ UNCHANGED <<alive, ip, tray, tui>>
        /\ row' = [k \in Kinds |->
                     IF row[k] = NoRow \/ row[k].age = Retention THEN row[k]
                     ELSE [row[k] EXCEPT !.age = @ + 1]]
    BY DEF Tick
  <1>2. trayLeft \in 0 .. TrayPoll /\ tuiLeft \in 0 .. TuiPoll
    BY DEF IInv, TypeOK
  <1>3. \A k \in Kinds :
          /\ row'[k] = NoRow \/ row'[k] \in Latency(k)
          /\ row'[k].age \in Int /\ row[k].age \in Int /\ row'[k].age <= row[k].age + 1
    <2> SUFFICES ASSUME NEW k \in Kinds
                 PROVE  /\ row'[k] = NoRow \/ row'[k] \in Latency(k)
                        /\ row'[k].age \in Int /\ row[k].age \in Int
                        /\ row'[k].age <= row[k].age + 1
      OBVIOUS
    <2>1. row[k] = NoRow \/ row[k] \in Latency(k)
      BY DEF IInv, TypeOK, Latency
    <2>2. row[k].age \in Int
      BY RowTypes DEF IInv
    <2>3. CASE row'[k] = row[k]
      BY <2>1, <2>2, <2>3
    <2>4. CASE /\ row[k] # NoRow /\ row[k].age # Retention
               /\ row'[k] = [row[k] EXCEPT !.age = @ + 1]
      BY <2>1, <2>4, ConstantTypes DEF Latency
    <2> QED BY <1>1, <2>3, <2>4
  <1>4. TypeOK'
    <2>1. trayLeft' \in 0 .. TrayPoll /\ tuiLeft' \in 0 .. TuiPoll
      BY <1>1, <1>2, ConstantTypes
    <2> QED BY <1>1, <1>3, <2>1 DEF IInv, TypeOK, Latency
  <1>5. TrayIsRecent'
    <2>1. ASSUME NEW k \in Kinds, row[k].age <= Stale[k] + (TrayPoll - trayLeft)
          PROVE  row'[k].age <= Stale[k] + (TrayPoll - trayLeft')
      <3>1. trayLeft \in Int /\ TrayPoll \in Int /\ Stale[k] \in Int /\ trayLeft' = trayLeft - 1
        BY <1>1, <1>2, ConstantTypes
      <3> QED BY <1>3, <2>1, <3>1
    <2> QED BY <1>1, <2>1, ConstantTypes DEF IInv, TrayIsRecent
  <1>6. TuiIsRecent'
    <2>1. ASSUME NEW k \in Kinds, row[k].age <= Stale[k] + (TuiPoll - tuiLeft)
          PROVE  row'[k].age <= Stale[k] + (TuiPoll - tuiLeft')
      <3>1. tuiLeft \in Int /\ TuiPoll \in Int /\ Stale[k] \in Int /\ tuiLeft' = tuiLeft - 1
        BY <1>1, <1>2, ConstantTypes
      <3> QED BY <1>3, <2>1, <3>1
    <2> QED BY <1>1, <2>1 DEF IInv, TuiIsRecent
  <1> QED BY <1>1, <1>4, <1>5, <1>6 DEF IInv

\* A row may be replaced, purged or the daemon may end at any time: only a poll changes a display.
LEMMA Inductive == IInv /\ [Next]_vars => IInv'
PROOF
  <1> SUFFICES ASSUME IInv, [Next]_vars PROVE IInv'
    OBVIOUS
  <1>1. alive \in BOOLEAN /\ ip \in Ips /\ row = [k \in Kinds |-> row[k]]
    BY DEF IInv, TypeOK
  <1>2. CASE Purge
    <2>1. /\ alive' \in BOOLEAN /\ ip' \in Ips /\ UNCHANGED displayVars
          /\ row' = [k \in Kinds |-> IF row[k].age >= Retention THEN NoRow ELSE row[k]]
      BY <1>1, <1>2 DEF Purge, Ips
    <2>2. /\ row' = [k \in Kinds |-> row'[k]]
          /\ \A k \in Kinds : row'[k] = row[k] \/ row'[k] = NoRow
      BY <2>1
    <2> QED BY <2>1, <2>2, RowsPreserve
  <1>3. CASE Stop \/ UpsertIp
    <2>1. alive' \in BOOLEAN /\ ip' \in Ips /\ UNCHANGED displayVars /\ row' = row
      BY <1>1, <1>3 DEF Stop, UpsertIp
    <2> QED BY <1>1, <2>1, RowsPreserve
  <1>4. ASSUME NEW k \in Kinds, Insert(k) PROVE IInv'
    <2>1. PICK ms \in Latencies[k] \cup {None} :
            row' = [row EXCEPT ![k] = [ms |-> ms, age |-> 0]]
      BY <1>4 DEF Insert
    <2>2. alive' = alive /\ ip' = ip /\ UNCHANGED displayVars
      BY <1>4 DEF Insert
    <2>3. [ms |-> ms, age |-> 0] \in Latency(k) /\ [ms |-> ms, age |-> 0].age = 0
      BY ConstantTypes DEF Latency
    <2>4. row' = [j \in Kinds |-> row'[j]]
      BY <1>1, <2>1
    <2>5. row'[k] = [ms |-> ms, age |-> 0] /\ \A j \in Kinds \ {k} : row'[j] = row[j]
      BY <1>1, <2>1
    <2> QED BY <1>1, <2>2, <2>3, <2>4, <2>5, RowsPreserve
  <1>5. CASE UNCHANGED vars
    <2>1. UNCHANGED displayVars /\ row' = row /\ alive' = alive /\ ip' = ip
      BY <1>5 DEF vars, displayVars
    <2> QED BY <1>1, <2>1, RowsPreserve
  <1> QED BY <1>2, <1>3, <1>4, <1>5, TrayRefreshPreserves, TuiRefreshPreserves, TickPreserves
      DEF Next

\* The tray begins by waiting, the status line with an empty database.
LEMMA InitHolds == Init => IInv
PROOF
  <1> SUFFICES ASSUME Init PROVE IInv
    OBVIOUS
  <1>1. alive \in BOOLEAN
    BY DEF Init
  <1>2. /\ row = [k \in Kinds |-> NoRow] /\ ip \in Ips
        /\ trayLeft = TrayPoll /\ tuiLeft = TuiPoll
        /\ tray.symbol = "waiting" /\ tray.country = FALSE
        /\ \A k \in Kinds : tray.item[k] = "waiting"
        /\ \A k \in Kinds : tui.item[k] = TuiItem(k)
    BY DEF Init, Ips, TuiView
  <1>3. \A k \in Kinds : row[k] = NoRow /\ TuiItem(k) \notin Bands
    BY <1>2 DEF TuiItem, IsStale, Bands
  <1>4. TypeOK
    BY <1>1, <1>2, ConstantTypes DEF TypeOK
  <1>5. TrayIsRecent /\ TuiIsRecent
    BY <1>2, <1>3 DEF TrayIsRecent, TuiIsRecent, Bands
  <1> QED BY <1>2, <1>4, <1>5 DEF IInv

--------------------------------------------------------------------------------
\* The invariant of the rows and of what is still on the displays.
THEOREM Invariance == Spec => []IInv
BY InitHolds, Inductive, PTL DEF Spec

\* No band, country or figure of a row that has stopped coming stays on a
\* display longer than stale_seconds and one of its polls.
THEOREM StaleShows == Spec => []StaleIsNoticed
PROOF
  <1>1. IInv => StaleIsNoticed
    <2> SUFFICES ASSUME IInv PROVE StaleIsNoticed
      OBVIOUS
    <2>1. trayLeft \in 0 .. TrayPoll /\ tuiLeft \in 0 .. TuiPoll
          /\ \A k \in Kinds : row[k].age \in Int
      BY RowTypes DEF IInv, TypeOK
    <2>2. \A k \in Kinds :
            /\ row[k].age <= Stale[k] + (TrayPoll - trayLeft) =>
                 row[k].age <= Stale[k] + TrayPoll
            /\ row[k].age <= Stale[k] + (TuiPoll - tuiLeft) =>
                 row[k].age <= Stale[k] + TuiPoll
      BY <2>1, ConstantTypes
    <2> QED BY <2>2, ConstantTypes DEF IInv, TrayIsRecent, TuiIsRecent, StaleIsNoticed
  <1> QED BY <1>1, Invariance, PTL

\* The four places that class a latency agree on every millisecond, on the
\* thresholds themselves and without one.
THEOREM OneClassPerLatency == Spec => []LatencyItemsAgree
PROOF
  <1>1. TypeOK => LatencyItemsAgree
    <2> SUFFICES ASSUME TypeOK, NEW k \in Kinds, row[k] # NoRow
                 PROVE  /\ TrayItem(k) = IF TuiItem(k) \in {"stale", "down"} THEN TuiItem(k)
                                         ELSE "ms"
                        /\ k = "warm" => Symbol = TuiItem(k)
                        /\ ~IsStale(k) =>
                             /\ {SparkLatency(row[k].ms, k), HistoryLatency(row[k].ms, k),
                                 ScreenLatency(row[k].ms, k)} = {TuiItem(k)}
                             /\ CliLatency(row[k].ms) = TrayItem(k)
      BY DEF LatencyItemsAgree
    <2> DEFINE ms == row[k].ms
    <2>1. ms \in Nat \cup {None} /\ Ok[k] \in Nat /\ Slow[k] \in Nat
      BY RowTypes, ConstantTypes
    <2>2. CASE IsStale(k)
      <3>1. TrayItem(k) = "stale" /\ TuiItem(k) = "stale"
        BY <2>2 DEF TrayItem, TuiItem
      <3> QED BY <2>2, <3>1 DEF Symbol
    <2>3. CASE ~ IsStale(k) /\ ms = None
      <3>1. TrayItem(k) = "down" /\ TuiItem(k) = "down"
        BY <2>3 DEF TrayItem, TuiItem
      <3>2. k = "warm" => Symbol = "down"
        BY <2>3 DEF Symbol, WarmBand, None
      <3> QED BY <2>3, <3>1, <3>2 DEF SparkLatency, HistoryLatency, ScreenLatency, CliLatency
    <2>4. CASE ~ IsStale(k) /\ ms # None
      <3> DEFINE class == IF ms < Ok[k] THEN "ok" ELSE IF ms < Slow[k] THEN "slow" ELSE "bad"
      <3>1. TrayItem(k) = "ms" /\ TuiItem(k) = class
        BY <2>4 DEF TrayItem, TuiItem
      <3>2. k = "warm" => Symbol = class
        BY <2>1, <2>4 DEF Symbol, WarmBand
      <3>3. LatencyStyle(ms, Ok[k], Slow[k]) = class
        BY <2>4 DEF LatencyStyle
      <3> QED BY <2>4, <3>1, <3>2, <3>3 DEF SparkLatency, HistoryLatency, ScreenLatency,
         CliLatency
    <2> QED BY <2>2, <2>3, <2>4
  <1>2. IInv => TypeOK
    BY DEF IInv
  <1> QED BY <1>1, <1>2, Invariance, PTL

================================================================================
