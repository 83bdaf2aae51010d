---------------------------- MODULE SettingsProofs ----------------------------
(* Theorems about Settings, for any workload: how often the pages are applied,   *)
(* with what, and what fails meanwhile.                                          *)
EXTENDS Settings, TLAPS

------------------------------------------------------------------------------
\* LVGL's list of calls: one is put at its head, and its head is taken off.
LEMMA PostMeans ==
    ASSUME NEW S, NEW s \in Seq(S), NEW c
    PROVE  /\ <<c>> \o s \in Seq(S \cup {c})
           /\ DOMAIN (<<c>> \o s) = 1 .. Len(s) + 1
           /\ (<<c>> \o s)[1] = c
           /\ \A i \in 2 .. Len(s) + 1 : (<<c>> \o s)[i] = s[i - 1]
OBVIOUS

LEMMA RunMeans ==
    ASSUME NEW S, NEW s \in Seq(S), s # <<>>
    PROVE  /\ Tail(s) \in Seq(S)
           /\ DOMAIN s = 1 .. Len(s) /\ 1 \in DOMAIN s /\ Head(s) = s[1]
           /\ DOMAIN Tail(s) = 1 .. Len(s) - 1
           /\ \A i \in 1 .. Len(s) - 1 : Tail(s)[i] = s[i + 1]
OBVIOUS

------------------------------------------------------------------------------
DayOK == day \in [known : BOOLEAN, wifi : Seq(Nets \X Nets), server : Nat,
                  faults : SUBSET Faults]

PlacesOK == DOMAIN wpc = Starters

\* The calls that wait: the page is told that Wi-Fi is free only by a thread that has
\* ended, and there is one answer at most, of the probe that was last.
IsCall(i, of) == i \in DOMAIN calls /\ calls[i].of = of
CallsOK ==
    /\ \E S : calls \in Seq(S)
    /\ \A i : IsCall(i, "wifi") => calls[i].busy \/ wpc["apply"] = "idle"
    /\ \A i : IsCall(i, "server") => probe_busy /\ ppc = "idle"
    /\ \A i, j : IsCall(i, "server") /\ IsCall(j, "server") => i = j

BusyOK == /\ wpc["apply"] # "idle" => wifi_apply_busy
          /\ ppc # "idle" => probe_busy

SettingsInv == DayOK /\ PlacesOK /\ CallsOK /\ BusyOK

LEMMA SettingsInvInit == Init => SettingsInv
<1> SUFFICES ASSUME Init PROVE SettingsInv
  OBVIOUS
<1>1. calls = <<>> /\ calls \in Seq({})
  BY DEF Init
<1>2. DOMAIN calls = {}
  BY <1>1
<1>3. CallsOK
  BY <1>1, <1>2 DEF CallsOK, IsCall
<1>4. DayOK /\ PlacesOK /\ BusyOK
  <2>1. wpc["apply"] = "idle" /\ DOMAIN wpc = {"boot", "apply"} /\ ppc = "idle"
    BY DEF Init
  <2>2. day \in Days
    BY DEF Init
  <2>3. QED
    BY <2>1, <2>2, SettingsAssumption DEF DayOK, PlacesOK, BusyOK, Starters
<1>5. QED
  BY <1>3, <1>4 DEF SettingsInv

\* A step that leaves calls, probe and apply thread alone, or lets the thread go on.
LEMMA NothingPosted ==
    ASSUME SettingsInv, PlacesOK', DayOK', UNCHANGED <<calls, probe_busy, ppc>>,
           wifi_apply_busy' = wifi_apply_busy,
           wpc["apply"] = "idle" => wpc'["apply"] = "idle",
           (\E i : IsCall(i, "wifi") /\ ~calls[i].busy) => wpc'["apply"] = "idle"
    PROVE  SettingsInv'
BY DEF SettingsInv, CallsOK, BusyOK, IsCall

\* Within the Wi-Fi service a thread neither ends nor is it about to save.
LEMMA WifiServiceMoves ==
    ASSUME NEW t, WifiService(t)
    PROVE  /\ wpc[t] \notin {"idle", "setPass", "save", "write"}
           /\ \E p : wpc' = [wpc EXCEPT ![t] = p]
           /\ WifiOnly
<1>1. /\ wpc[t] \notin {"idle", "setPass", "save", "write"}
      /\ \E p : wpc' = [wpc EXCEPT ![t] = p]
  <2>1. CASE StartFails(t)
    BY <2>1 DEF StartFails, FailsAt
  <2>2. CASE Configure(t)
    BY <2>2 DEF Configure
  <2>3. CASE \E from, to : /\ Goes(t, from, to)
                          /\ from \notin {"idle", "setPass", "save", "write"}
    BY <2>3 DEF Goes
  <2>4. QED
    BY <2>1, <2>2, <2>3 DEF WifiService, StartKnown, StartUnknown, CheckNetwork,
       NetworkFound, NoNetwork, Supplicant, NewNetwork, SetSsid, SetPsk, Select,
       Connected, Dhcp
<1>2. WifiOnly
  BY DEF WifiService, StartKnown, StartUnknown, CheckNetwork, NetworkFound, NoNetwork,
     StartFails, Supplicant, Configure, NewNetwork, SetSsid, SetPsk, Select, Connected,
     Dhcp
<1>3. QED
  BY <1>1, <1>2

LEMMA WifiServiceKeeps ==
    ASSUME SettingsInv, NEW t \in Starters, WifiService(t) PROVE SettingsInv'
<1>1. wpc[t] # "idle" /\ (\E p : wpc' = [wpc EXCEPT ![t] = p]) /\ WifiOnly
  BY WifiServiceMoves
<1>2. PlacesOK'
  BY <1>1 DEF SettingsInv, PlacesOK
<1>3. wpc["apply"] = "idle" => wpc'["apply"] = "idle"
  BY <1>1 DEF SettingsInv, PlacesOK, Starters
<1>4. DayOK' /\ UNCHANGED <<calls, probe_busy, ppc, wifi_apply_busy>>
  BY <1>1 DEF SettingsInv, DayOK, WifiOnly, probeVars, pageVars
<1>5. QED
  BY <1>2, <1>3, <1>4, NothingPosted DEF SettingsInv, CallsOK

\* The steps of the apply thread: it speaks twice, and the second time it ends.  What it
\* says may get lost.
LEMMA ApplyKeeps == ASSUME SettingsInv, Apply PROVE SettingsInv'
<1> USE DEF SettingsInv, ApplyOnly, WifiOnly, probeVars, pageVars, Goes, tableVars
<1>1. ASSUME ApplyBegins \/ ApplySaveFails \/ ApplyReports
      PROVE  \E b \in BOOLEAN : /\ Post(WifiCall(b)) /\ (b \/ wpc'["apply"] = "idle")
                              /\ wpc["apply"] # "idle" /\ PlacesOK'
                              /\ UNCHANGED <<day, probe_busy, ppc, wifi_apply_busy>>
  BY <1>1 DEF ApplyBegins, ApplySaveFails, ApplyReports, PlacesOK, Starters
<1>2. ASSUME NEW b \in BOOLEAN, calls' = <<WifiCall(b)>> \o calls,
             b \/ wpc'["apply"] = "idle", wpc["apply"] # "idle", PlacesOK',
             UNCHANGED <<day, probe_busy, ppc, wifi_apply_busy>>
      PROVE  SettingsInv'
  <2>1. PICK S : calls \in Seq(S)
    BY DEF CallsOK
  <2>2. /\ calls' \in Seq(S \cup {WifiCall(b)})
        /\ DOMAIN calls' = 1 .. Len(calls) + 1 /\ calls'[1] = WifiCall(b)
        /\ \A i \in 2 .. Len(calls) + 1 : i - 1 \in DOMAIN calls /\ calls'[i] = calls[i - 1]
    BY <1>2, <2>1, PostMeans
  <2>3. \A i : IsCall(i, "server")' => i \in 2 .. Len(calls) + 1 /\ IsCall(i - 1, "server")
    BY <2>1, <2>2 DEF IsCall, WifiCall
  <2>4. \A i : IsCall(i, "wifi")' => \/ calls'[i] = WifiCall(b)
                                    \/ /\ IsCall(i - 1, "wifi")
                                       /\ calls'[i] = calls[i - 1]
    BY <2>1, <2>2 DEF IsCall
  <2>5. CallsOK'
    <3>5. WifiCall(b).busy \/ wpc'["apply"] = "idle"
      BY <1>2 DEF WifiCall
    <3>1. \A i : IsCall(i, "wifi")' => calls'[i].busy \/ wpc'["apply"] = "idle"
      BY <1>2, <2>4, <3>5 DEF CallsOK
    <3>2. \A i : IsCall(i, "server")' => probe_busy' /\ ppc' = "idle"
      BY <1>2, <2>3 DEF CallsOK
    <3>3. \A i, j : IsCall(i, "server")' /\ IsCall(j, "server")' => i = j
      <4> SUFFICES ASSUME NEW i, NEW j, IsCall(i, "server")', IsCall(j, "server")'
                   PROVE  i = j
        OBVIOUS
      <4>1. i - 1 = j - 1 /\ i \in Nat /\ j \in Nat
        BY <2>1, <2>3 DEF CallsOK
      <4>2. QED
        BY <4>1
    <3>4. QED
      BY <2>2, <3>1, <3>2, <3>3 DEF CallsOK
  <2>6. QED
    BY <1>2, <2>5 DEF DayOK, BusyOK
<1>3. ASSUME ApplySsid \/ ApplyPass \/ ApplySaves \/ ApplyWrites \/ Disconnect \/ TurnOff
      PROVE  /\ wpc["apply"] # "idle" /\ PlacesOK'
             /\ UNCHANGED <<day, calls, probe_busy, ppc, wifi_apply_busy>>
  BY <1>3 DEF ApplySsid, ApplyPass, ApplySaves, ApplyWrites, Disconnect, TurnOff, PlacesOK,
              Starters
<1>4. ASSUME wpc["apply"] # "idle", PlacesOK',
             UNCHANGED <<day, calls, probe_busy, ppc, wifi_apply_busy>>
      PROVE  SettingsInv'
  <2>1. DayOK' /\ ((\E i : IsCall(i, "wifi") /\ ~calls[i].busy) => FALSE)
    BY <1>4 DEF CallsOK, DayOK
  <2>2. QED
    BY <1>4, <2>1, NothingPosted
<1>5. QED
  BY <1>1, <1>2, <1>3, <1>4 DEF Apply, Post

\* The probe thread says one thing, when it ends.
LEMMA ProbeKeeps == ASSUME SettingsInv, Probe PROVE SettingsInv'
<1> USE DEF SettingsInv, ProbeOnly, wifiVars, pageVars
<1>1. ASSUME ProbeReadsHost \/ ProbeReadsCred PROVE SettingsInv'
  <2>1. /\ UNCHANGED <<day, wpc, calls, probe_busy, wifi_apply_busy>>
        /\ ppc # "idle"
    BY <1>1 DEF ProbeReadsHost, ProbeReadsCred
  <2>2. \A i : ~IsCall(i, "server")
    BY <2>1 DEF CallsOK
  <2>3. QED
    BY <2>1, <2>2 DEF CallsOK, BusyOK, DayOK, PlacesOK, IsCall
<1>2. ASSUME NEW r, ProbeReports(r) \/ (r = "reset" /\ ProbeNoMemory)
      PROVE  /\ UNCHANGED <<day, wpc, probe_busy, wifi_apply_busy>>
             /\ ppc # "idle" /\ ppc' = "idle"
             /\ Post([of |-> "server", state |-> r, about |-> probed])
  BY <1>2 DEF ProbeReports, ProbeNoMemory
<1>3. ASSUME UNCHANGED <<day, wpc, probe_busy, wifi_apply_busy>>,
             ppc # "idle", ppc' = "idle", UNCHANGED calls
      PROVE  SettingsInv'
  BY <1>3 DEF CallsOK, BusyOK, DayOK, PlacesOK, IsCall
<1>4. ASSUME NEW r, UNCHANGED <<day, wpc, probe_busy, wifi_apply_busy>>,
             ppc # "idle", ppc' = "idle",
             calls' = <<[of |-> "server", state |-> r, about |-> probed]>> \o calls
      PROVE  SettingsInv'
  <2> DEFINE c == [of |-> "server", state |-> r, about |-> probed]
  <2>1. /\ UNCHANGED <<day, wpc, probe_busy, wifi_apply_busy>>
        /\ ppc # "idle" /\ ppc' = "idle" /\ calls' = <<c>> \o calls /\ c.of = "server"
    BY <1>4
  <2> HIDE DEF c
  <2>2. PICK S : calls \in Seq(S)
    BY DEF CallsOK
  <2>3. /\ calls' \in Seq(S \cup {c})
        /\ DOMAIN calls' = 1 .. Len(calls) + 1 /\ calls'[1] = c
        /\ \A i \in 2 .. Len(calls) + 1 : i - 1 \in DOMAIN calls /\ calls'[i] = calls[i - 1]
    BY <2>1, <2>2, PostMeans
  <2>4. \A i : ~IsCall(i, "server")
    BY <2>1 DEF CallsOK
  <2>5. \A i : IsCall(i, "server")' => i = 1
    BY <2>2, <2>3, <2>4 DEF IsCall
  <2>6. \A i : IsCall(i, "wifi")' => IsCall(i - 1, "wifi") /\ calls'[i] = calls[i - 1]
    BY <2>1, <2>2, <2>3 DEF IsCall
  <2>7. CallsOK'
    BY <2>1, <2>3, <2>5, <2>6 DEF CallsOK, BusyOK
  <2>8. QED
    BY <2>1, <2>7 DEF BusyOK, DayOK, PlacesOK
<1>5. QED
  BY <1>1, <1>2, <1>3, <1>4 DEF Probe, Post

\* The UI takes a call off the list.
LEMMA RunKeeps == ASSUME SettingsInv, RunWifiCall \/ RunServerCall PROVE SettingsInv'
<1> USE DEF SettingsInv, UiOnly, wifiVars, probeVars
<1>1. PICK S : calls \in Seq(S)
  BY DEF CallsOK
<1>2. calls # <<>> /\ calls' = Tail(calls) /\ UNCHANGED <<day, wpc, ppc>>
  BY DEF RunWifiCall, RunServerCall
<1>3. /\ Tail(calls) \in Seq(S)
      /\ 1 \in DOMAIN calls /\ Head(calls) = calls[1]
      /\ DOMAIN calls' = 1 .. Len(calls) - 1
      /\ \A i \in 1 .. Len(calls) - 1 : i + 1 \in DOMAIN calls /\ calls'[i] = calls[i + 1]
  BY <1>1, <1>2, RunMeans
<1>4. \A i, of : IsCall(i, of)' =>
         i \in 1 .. Len(calls) - 1 /\ IsCall(i + 1, of) /\ calls'[i] = calls[i + 1]
  BY <1>1, <1>3 DEF IsCall
<1>5. \A i, j : IsCall(i, "server")' /\ IsCall(j, "server")' => i = j
  <2> SUFFICES ASSUME NEW i, NEW j, IsCall(i, "server")', IsCall(j, "server")' PROVE i = j
    OBVIOUS
  <2>1. i + 1 = j + 1 /\ i \in Nat /\ j \in Nat
    BY <1>4 DEF CallsOK
  <2>2. QED
    BY <2>1
<1>6. CASE RunWifiCall
  <2>1. /\ IsCall(1, "wifi") /\ wifi_apply_busy' = calls[1].busy
        /\ UNCHANGED probe_busy
    BY <1>3, <1>6 DEF RunWifiCall, IsCall
  <2>2. BusyOK'
    BY <1>2, <2>1 DEF BusyOK, CallsOK
  <2>3. CallsOK'
    BY <1>2, <1>3, <1>4, <1>5, <2>1 DEF CallsOK
  <2>4. QED
    BY <1>2, <2>2, <2>3 DEF DayOK, PlacesOK
<1>7. CASE RunServerCall
  <2>1. IsCall(1, "server") /\ UNCHANGED wifi_apply_busy
    BY <1>3, <1>7 DEF RunServerCall, IsCall
  <2>2. \A i : ~IsCall(i, "server")'
    <3> SUFFICES ASSUME NEW i, IsCall(i, "server")' PROVE FALSE
      OBVIOUS
    <3>1. i + 1 = 1 /\ i \in 1 .. Len(calls) - 1
      BY <1>4, <2>1 DEF CallsOK
    <3>2. QED
      BY <3>1
  <2>3. ppc = "idle"
    BY <2>1 DEF CallsOK
  <2>4. CallsOK'
    BY <1>2, <1>3, <1>4, <2>2 DEF CallsOK
  <2>5. QED
    BY <1>2, <2>1, <2>3, <2>4 DEF BusyOK, DayOK, PlacesOK
<1>8. QED
  BY <1>6, <1>7

\* The UI starts a probe only after the answer of the last one was shown.
LEMMA MaybeProbeMeans ==
    ASSUME NEW link, NEW force, MaybeProbe(link, force)
    PROVE  \/ UNCHANGED <<probe_busy, ppc>>
           \/ ~probe_busy /\ probe_busy' /\ ppc' = "host"
BY DEF MaybeProbe, ProbeStarts

LEMMA UiKeeps == ASSUME SettingsInv, Ui PROVE SettingsInv'
<1> USE DEF SettingsInv, UiOnly, wifiVars, probeVars, pageVars, tableVars
<1>1. ASSUME UNCHANGED <<day, wpc, calls, wifi_apply_busy>>,
             \/ UNCHANGED <<probe_busy, ppc>>
             \/ ~probe_busy /\ probe_busy' /\ ppc' = "host"
      PROVE  SettingsInv'
  <2>1. CASE UNCHANGED <<probe_busy, ppc>>
    BY <1>1, <2>1 DEF CallsOK, BusyOK, DayOK, PlacesOK, IsCall
  <2>2. CASE ~probe_busy /\ probe_busy' /\ ppc' = "host"
    <3>1. \A i : ~IsCall(i, "server")
      BY <2>2 DEF CallsOK
    <3>2. QED
      BY <1>1, <2>2, <3>1 DEF CallsOK, BusyOK, DayOK, PlacesOK, IsCall
  <2>3. QED
    BY <1>1, <2>1, <2>2
<1>2. ASSUME RefreshPage PROVE SettingsInv'
  BY <1>1, <1>2, MaybeProbeMeans DEF RefreshPage
<1>3. ASSUME ServerRequests PROVE SettingsInv'
  BY <1>1, <1>3, MaybeProbeMeans DEF ServerRequests
<1>4. ASSUME RefreshPolls \/ ServerCred \/ ServerSaves \/ ServerWrites \/ ServerSaveFails
      PROVE  SettingsInv'
  BY <1>1, <1>4 DEF RefreshPolls, ServerCred, ServerSaves, ServerWrites, ServerSaveFails
<1>5. QED
  BY <1>2, <1>3, <1>4, RunKeeps DEF Ui, RefreshOff, PollDone

LEMMA OthersKeep ==
    ASSUME SettingsInv, Touch \/ Associate \/ LinkLost \/ Interval PROVE SettingsInv'
<1> USE DEF SettingsInv, UiOnly, WifiOnly, wifiVars, probeVars, pageVars, tableVars
<1>1. ASSUME WifiApply PROVE SettingsInv'
  <2>1. calls = <<>> /\ UNCHANGED <<day, calls, probe_busy, ppc>>
    BY <1>1 DEF WifiApply, Idle
  <2>2. DOMAIN calls = {}
    BY <2>1
  <2>3. \/ UNCHANGED <<wpc, wifi_apply_busy>>
        \/ wpc' = [wpc EXCEPT !["apply"] = "begin"] /\ wifi_apply_busy'
    BY <1>1 DEF WifiApply
  <2>4. CallsOK' /\ PlacesOK' /\ DayOK'
    BY <2>1, <2>2, <2>3 DEF CallsOK, PlacesOK, DayOK, IsCall
  <2>5. QED
    BY <2>1, <2>3, <2>4 DEF BusyOK
<1>2. ASSUME LinkLost PROVE SettingsInv'
  <2>1. DayOK' /\ UNCHANGED <<calls, probe_busy, ppc, wpc, wifi_apply_busy>>
    BY <1>2 DEF LinkLost, DayOK
  <2>2. QED
    BY <2>1 DEF CallsOK, BusyOK, PlacesOK, IsCall
<1>3. ASSUME ServerApply \/ ShowPage \/ Associate \/ Interval PROVE SettingsInv'
  BY <1>3 DEF ServerApply, ShowPage, Associate, Interval, CallsOK, BusyOK, DayOK, PlacesOK,
     IsCall
<1>4. QED
  BY <1>1, <1>2, <1>3 DEF Touch

\* The invariant behind OneAtATime: whatever order the calls are run in, the page hears
\* of an end only after it (page_settings.c:382-451, ui_manager.c:216-309).
THEOREM SettingsInvariant == Spec => []SettingsInv
<1>1. SettingsInv /\ Next => SettingsInv'
  BY UiKeeps, OthersKeep, ProbeKeeps, ApplyKeeps, WifiServiceKeeps DEF Next
<1>2. SettingsInv /\ UNCHANGED vars => SettingsInv'
  BY DEF vars, probeVars, pageVars, SettingsInv, CallsOK, BusyOK, DayOK, PlacesOK, IsCall
<1>3. QED
  BY <1>1, <1>2, SettingsInvInit, PTL DEF Spec

\* OneAtATime (Settings.tla): at any moment there is one apply thread and one probe at
\* most, for any number of touches and in spite of the list's order.
THEOREM SettingsOneAtATime == Spec => []OneAtATime
<1>1. SettingsInv => OneAtATime
  BY DEF SettingsInv, CallsOK, BusyOK, IsCall, OneAtATime
<1>2. QED
  BY <1>1, SettingsInvariant, PTL

------------------------------------------------------------------------------
\* One step of the table, the file and those who save.
LEMMA FileKept ==
    ASSUME SettingsInv, FileFollowsTable, Next PROVE FileFollowsTable'
<1> USE DEF FileFollowsTable, tableVars
<1>1. ASSUME NEW t \in Starters, WifiService(t) PROVE FileFollowsTable'
  <2>1. /\ wpc[t] \notin {"setPass", "save", "write"}
        /\ \E p : wpc' = [wpc EXCEPT ![t] = p]
        /\ UNCHANGED <<day, uipc, s_entries, file>>
    BY <1>1, WifiServiceMoves DEF WifiOnly
  <2>2. \/ t = "apply"
        \/ wpc'["apply"] = wpc["apply"]
    BY <2>1 DEF SettingsInv, PlacesOK, Starters
  <2>3. QED
    BY <2>1, <2>2
<1>2. CASE Apply
  <2> USE DEF Goes, ApplyOnly, WifiOnly, SaveOpen, SaveWrite, ConfigSet, SettingsInv,
              PlacesOK, Starters
  <2>1. CASE ApplyBegins \/ ApplySaveFails \/ ApplyReports \/ Disconnect \/ TurnOff
    BY <2>1 DEF ApplyBegins, ApplySaveFails, ApplyReports, Disconnect, TurnOff
  <2>2. CASE ApplySsid \/ ApplyPass \/ ApplySaves \/ ApplyWrites
    BY <2>2 DEF ApplySsid, ApplyPass, ApplySaves, ApplyWrites
  <2>3. QED
    BY <1>2, <2>1, <2>2 DEF Apply
<1>3. CASE Probe
  BY <1>3 DEF Probe, ProbeReadsHost, ProbeReadsCred, ProbeReports, ProbeNoMemory, ProbeOnly
<1>4. CASE Ui
  <2> USE DEF UiOnly, SaveOpen, SaveWrite, ConfigSet, Idle
  <2>1. CASE RunWifiCall \/ RunServerCall \/ RefreshPolls \/ RefreshOff \/ PollDone
    BY <2>1 DEF RunWifiCall, RunServerCall, RefreshPolls, RefreshOff, PollDone, RefreshPage
  <2>2. CASE ServerCred \/ ServerSaves \/ ServerWrites \/ ServerSaveFails \/ ServerRequests
    BY <2>2 DEF ServerCred, ServerSaves, ServerWrites, ServerSaveFails, ServerRequests
  <2>3. QED
    BY <1>4, <2>1, <2>2 DEF Ui
<1>5. CASE WifiApply
  BY <1>5 DEF WifiApply, SettingsInv, PlacesOK, Starters, BusyOK
<1>6. CASE ServerApply \/ ShowPage \/ Associate \/ Interval
  BY <1>6 DEF ServerApply, ShowPage, Associate, Interval, UiOnly, WifiOnly, ConfigSet
<1>7. CASE LinkLost
  <2>1. "save" \in day'.faults <=> "save" \in day.faults
    BY <1>7 DEF LinkLost, SettingsInv, DayOK
  <2>2. UNCHANGED <<wpc, uipc, s_entries, file>>
    BY <1>7 DEF LinkLost
  <2>3. QED
    BY <2>1, <2>2
<1>8. QED
  BY <1>1, <1>2, <1>3, <1>4, <1>5, <1>6, <1>7 DEF Next, Touch

\* FileFollowsTable (Settings.tla): between the changes config.ini holds what the table
\* holds, though the apply thread and the UI set and save in any order (config.c:232-258).
THEOREM SettingsFileFollowsTable == Spec => []FileFollowsTable
<1>1. Init => FileFollowsTable
  BY DEF Init, FileFollowsTable
<1>2. SettingsInv /\ FileFollowsTable /\ [Next]_vars => FileFollowsTable'
  BY FileKept DEF vars, tableVars, FileFollowsTable
<1>3. QED
  BY <1>1, <1>2, SettingsInvariant, PTL DEF Spec

------------------------------------------------------------------------------
\* The types, in five parts.  A thread that applies has been given something to type.
CountOK ==
    /\ wifis \in Nat /\ servers \in Nat /\ wifis <= Len(day.wifi)
    /\ wpc["apply"] # "idle" => wifis > 0

TableOK ==
    /\ s_entries \in [ssid : Nets \cup {NoNet}, pass : Nets \cup {NoNet},
                      host : Nat, cred : Nat]
    /\ saver \in {"none", "apply", "ui"}
    /\ saver = "none" <=> file # Torn

WifiOK ==
    /\ s_state \in WifiStates
    /\ wpa \in [ssid : Nets \cup {NoNet}, pass : Nets \cup {NoNet}, on : BOOLEAN]
    /\ assoc \in Nets \cup {NoNet}

StepsOK ==
    /\ uipc \in {"loop", "poll", "setCred", "save", "write", "request"}
    /\ wpc["boot"] \in {"start", "check", "online", "offline", "supplicant", "configure",
                        "remove", "ssid", "psk", "select", "wait", "dhcp", "idle"}
    /\ ppc \in {"idle", "host", "cred", "net"}

FlagsOK ==
    /\ wifi_apply_busy \in BOOLEAN /\ server_apply_busy \in BOOLEAN
    /\ probe_busy \in BOOLEAN /\ probe_force \in BOOLEAN
    /\ \A i : IsCall(i, "wifi") => calls[i].busy \in BOOLEAN

LinkOK ==
    /\ server_link_state \in LinkStates
    /\ \A i : IsCall(i, "server") => calls[i].state \in LinkStates \cup {"reset"}

\* What a step does to the calls that wait: one may be new, the others were there.
LEMMA CallsComeOnce ==
    ASSUME SettingsInv, Next, NEW i, i \in DOMAIN calls'
    PROVE  \/ \E j : j \in DOMAIN calls /\ calls'[i] = calls[j]
           \/ Apply /\ \E b \in BOOLEAN : calls'[i] = WifiCall(b)
           \/ Probe /\ \E r \in {"online", "failed", "reset"} :
                          calls'[i] = [of |-> "server", state |-> r, about |-> probed]
<1>1. PICK S : calls \in Seq(S)
  BY DEF SettingsInv, CallsOK
<1>2. CASE UNCHANGED calls
  BY <1>2
<1>10. ASSUME NEW c, calls' = <<c>> \o calls
       PROVE  calls'[i] = c \/ \E j : j \in DOMAIN calls /\ calls'[i] = calls[j]
  <2>1. /\ DOMAIN calls' = 1 .. Len(calls) + 1 /\ calls'[1] = c
        /\ \A k \in 2 .. Len(calls) + 1 : calls'[k] = calls[k - 1]
        /\ DOMAIN calls = 1 .. Len(calls) /\ Len(calls) \in Nat
    BY <1>1, <1>10, PostMeans
  <2>2. CASE i = 1
    BY <2>1, <2>2
  <2>3. CASE i # 1
    <3>1. i \in 2 .. Len(calls) + 1 /\ i - 1 \in DOMAIN calls
      BY <2>1, <2>3
    <3>2. QED
      BY <2>1, <3>1
  <2>4. QED
    BY <2>2, <2>3
<1>3. ASSUME NEW c, Post(c)
      PROVE  calls'[i] = c \/ \E j : j \in DOMAIN calls /\ calls'[i] = calls[j]
  BY <1>2, <1>3, <1>10 DEF Post
<1>4. CASE RunWifiCall \/ RunServerCall
  <2>1. calls # <<>> /\ calls' = Tail(calls)
    BY <1>4 DEF RunWifiCall, RunServerCall
  <2>2. /\ DOMAIN calls = 1 .. Len(calls) /\ DOMAIN calls' = 1 .. Len(calls) - 1
        /\ \A k \in 1 .. Len(calls) - 1 : calls'[k] = calls[k + 1]
        /\ Len(calls) \in Nat
    BY <1>1, <2>1, RunMeans
  <2>3. i + 1 \in DOMAIN calls /\ calls'[i] = calls[i + 1]
    BY <2>2
  <2>4. QED
    BY <2>3
<1>5. CASE Apply
  <2>1. UNCHANGED calls \/ \E b \in BOOLEAN : Post(WifiCall(b))
    BY <1>5 DEF Apply, ApplyBegins, ApplySsid, ApplyPass, ApplySaves, ApplyWrites,
                ApplySaveFails, ApplyReports, Disconnect, TurnOff, WifiOnly
  <2>2. QED
    BY <1>2, <1>3, <1>5, <2>1
<1>6. CASE Probe
  <2>1. \/ UNCHANGED calls
        \/ \E r \in {"online", "failed", "reset"} :
              Post([of |-> "server", state |-> r, about |-> probed])
    BY <1>6 DEF Probe, ProbeReadsHost, ProbeReadsCred, ProbeReports, ProbeNoMemory
  <2>2. QED
    BY <1>2, <1>3, <1>6, <2>1
<1>7. CASE \E t \in Starters : WifiService(t)
  BY <1>2, <1>7, WifiServiceMoves DEF WifiOnly
<1>8. CASE \/ RefreshPolls \/ RefreshOff \/ PollDone \/ ServerCred \/ ServerSaves
           \/ ServerWrites \/ ServerSaveFails \/ ServerRequests \/ Touch
           \/ Associate \/ LinkLost \/ Interval
  BY <1>2, <1>8 DEF RefreshPolls, RefreshOff, PollDone, RefreshPage, ServerCred,
     ServerSaves, ServerWrites, ServerSaveFails, ServerRequests, Touch, WifiApply,
     ServerApply, ShowPage, Associate, LinkLost, Interval, WifiOnly
<1>9. QED
  BY <1>4, <1>5, <1>6, <1>7, <1>8 DEF Next, Ui

LEMMA CountStays == SettingsInv /\ CountOK /\ [Next]_vars => CountOK'
<1> SUFFICES ASSUME SettingsInv, CountOK, [Next]_vars PROVE CountOK'
  OBVIOUS
<1> USE DEF CountOK, SettingsInv, PlacesOK, Starters, count
<1>1. ASSUME NEW t \in Starters, WifiService(t) PROVE CountOK'
  BY <1>1, WifiServiceMoves DEF WifiOnly
<1>2. CASE Apply
  BY <1>2 DEF Apply, ApplyBegins, ApplySsid, ApplyPass, ApplySaves, ApplyWrites,
              ApplySaveFails, ApplyReports, Disconnect, TurnOff, WifiOnly, ApplyOnly, Goes
<1>3. CASE Probe
  BY <1>3 DEF Probe, ProbeReadsHost, ProbeReadsCred, ProbeReports, ProbeNoMemory, ProbeOnly
<1>4. CASE RunWifiCall \/ RunServerCall \/ RefreshPolls \/ RefreshOff \/ PollDone
  BY <1>4 DEF RunWifiCall, RunServerCall, RefreshPolls, RefreshOff, PollDone, RefreshPage,
              UiOnly
<1>5. CASE ServerCred \/ ServerSaves \/ ServerWrites \/ ServerSaveFails \/ ServerRequests
  BY <1>5 DEF ServerCred, ServerSaves, ServerWrites, ServerSaveFails, ServerRequests,
              UiOnly
<1>6. CASE WifiApply
  <2>1. wifis < Len(day.wifi) /\ wifis' = wifis + 1 /\ UNCHANGED <<day, servers>>
    BY <1>6 DEF WifiApply
  <2>2. Len(day.wifi) \in Nat
    BY DEF DayOK
  <2>3. QED
    BY <2>1, <2>2
<1>7. CASE ServerApply \/ ShowPage \/ Associate \/ Interval
  BY <1>7 DEF ServerApply, ShowPage, Associate, Interval, UiOnly, WifiOnly
<1>8. CASE LinkLost
  <2>1. day'.wifi = day.wifi /\ UNCHANGED <<wifis, servers, wpc>>
    BY <1>8 DEF LinkLost, DayOK
  <2>2. QED
    BY <2>1
<1>9. CASE UNCHANGED vars
  BY <1>9 DEF vars
<1>10. QED
  BY <1>1, <1>2, <1>3, <1>4, <1>5, <1>6, <1>7, <1>8, <1>9 DEF Next, Ui, Touch

LEMMA TableStays == SettingsInv /\ CountOK /\ TableOK /\ [Next]_vars => TableOK'
<1> SUFFICES ASSUME SettingsInv, CountOK, TableOK, [Next]_vars PROVE TableOK'
  OBVIOUS
<1> USE DEF TableOK, tableVars, SaveOpen, SaveWrite
<1>1. s_entries # Torn
  <2>1. "ssid" \in DOMAIN s_entries
    OBVIOUS
  <2>2. "ssid" \notin DOMAIN Torn
    BY DEF Torn
  <2>3. QED
    BY <2>1, <2>2
<1>2. ASSUME NEW t \in Starters, WifiService(t) PROVE TableOK'
  BY <1>2, WifiServiceMoves DEF WifiOnly
<1>3. CASE ApplySsid \/ ApplyPass
  <2>1. Typed \in Nets \X Nets
    <3>1. wpc["apply"] # "idle"
      BY <1>3 DEF ApplySsid, ApplyPass, Goes
    <3>2. wifis \in 1 .. Len(day.wifi) /\ day.wifi \in Seq(Nets \X Nets)
      BY <3>1 DEF CountOK, SettingsInv, DayOK
    <3>3. QED
      BY <3>2 DEF Typed
  <2>2. Typed[1] \in Nets /\ Typed[2] \in Nets
    BY <2>1
  <2>3. QED
    BY <1>3, <2>2 DEF ApplySsid, ApplyPass, ConfigSet
<1>4. CASE ApplyBegins \/ ApplySaveFails \/ ApplyReports \/ Disconnect \/ TurnOff
  BY <1>4 DEF ApplyBegins, ApplySaveFails, ApplyReports, Disconnect, TurnOff, WifiOnly
<1>12. CASE ApplySaves \/ ApplyWrites
  BY <1>1, <1>12 DEF ApplySaves, ApplyWrites
<1>5. CASE Probe
  BY <1>5 DEF Probe, ProbeReadsHost, ProbeReadsCred, ProbeReports, ProbeNoMemory, ProbeOnly
<1>6. CASE RunWifiCall \/ RunServerCall \/ RefreshPolls \/ RefreshOff \/ PollDone
  BY <1>6 DEF RunWifiCall, RunServerCall, RefreshPolls, RefreshOff, PollDone, RefreshPage
<1>7. CASE ServerCred \/ ServerApply
  BY <1>7 DEF ServerCred, ServerApply, ConfigSet, CountOK
<1>8. CASE ServerSaves \/ ServerWrites \/ ServerSaveFails \/ ServerRequests
  BY <1>1, <1>8 DEF ServerSaves, ServerWrites, ServerSaveFails, ServerRequests
<1>9. CASE WifiApply \/ ShowPage \/ Associate \/ Interval \/ LinkLost
  BY <1>9 DEF WifiApply, ShowPage, Associate, Interval, LinkLost, WifiOnly
<1>10. CASE UNCHANGED vars
  BY <1>10 DEF vars
<1>11. QED
  BY <1>2, <1>3, <1>4, <1>5, <1>6, <1>7, <1>8, <1>9, <1>10, <1>12
  DEF Next, Ui, Touch, Apply

LEMMA WifiStays == TableOK /\ WifiOK /\ [Next]_vars => WifiOK'
<1> SUFFICES ASSUME TableOK, WifiOK, [Next]_vars PROVE WifiOK'
  OBVIOUS
<1> USE DEF WifiOK, WifiStates, wifiVars
<1>1. s_entries.ssid \in Nets \cup {NoNet} /\ s_entries.pass \in Nets \cup {NoNet}
  BY DEF TableOK
<1>2. ASSUME NEW t \in Starters, WifiService(t) PROVE WifiOK'
  <2>1. CASE StartKnown(t) \/ StartUnknown(t) \/ CheckNetwork(t) \/ NetworkFound(t)
             \/ NoNetwork(t) \/ StartFails(t)
    BY <2>1 DEF StartKnown, StartUnknown, CheckNetwork, NetworkFound, NoNetwork, StartFails
  <2>2. CASE Supplicant(t) \/ Configure(t) \/ Connected(t) \/ Dhcp(t)
    BY <2>2 DEF Supplicant, Configure, Connected, Dhcp
  <2>3. CASE NewNetwork(t)
    BY <2>3 DEF NewNetwork
  <2>4. CASE SetSsid(t)
    BY <1>1, <2>4 DEF SetSsid
  <2>5. CASE SetPsk(t)
    BY <1>1, <2>5 DEF SetPsk
  <2>6. CASE Select(t)
    BY <2>6 DEF Select
  <2>7. QED
    BY <1>2, <2>1, <2>2, <2>3, <2>4, <2>5, <2>6 DEF WifiService
<1>3. CASE Apply
  BY <1>3 DEF Apply, ApplyBegins, ApplySsid, ApplyPass, ApplySaves, ApplyWrites,
              ApplySaveFails, ApplyReports, Disconnect, TurnOff, ApplyOnly
<1>4. CASE Probe
  BY <1>4 DEF Probe, ProbeReadsHost, ProbeReadsCred, ProbeReports, ProbeNoMemory, ProbeOnly
<1>5. CASE RunWifiCall \/ RunServerCall \/ RefreshPolls
  BY <1>5 DEF RunWifiCall, RunServerCall, RefreshPolls, UiOnly
<1>6. CASE RefreshOff \/ PollDone
  BY <1>6 DEF RefreshOff, PollDone, RefreshPage, Status
<1>7. CASE ServerCred \/ ServerSaves \/ ServerWrites \/ ServerSaveFails \/ ServerRequests
  BY <1>7 DEF ServerCred, ServerSaves, ServerWrites, ServerSaveFails, ServerRequests,
              UiOnly
<1>8. CASE WifiApply \/ ServerApply \/ ShowPage \/ Interval
  BY <1>8 DEF WifiApply, ServerApply, ShowPage, Interval, UiOnly
<1>9. CASE Associate \/ LinkLost
  BY <1>9 DEF Associate, LinkLost
<1>10. CASE UNCHANGED vars
  BY <1>10 DEF vars
<1>11. QED
  BY <1>2, <1>3, <1>4, <1>5, <1>6, <1>7, <1>8, <1>9, <1>10 DEF Next, Ui, Touch

LEMMA StepsStay == SettingsInv /\ StepsOK /\ [Next]_vars => StepsOK'
<1> SUFFICES ASSUME SettingsInv, StepsOK, [Next]_vars PROVE StepsOK'
  OBVIOUS
<1> USE DEF StepsOK, SettingsInv, PlacesOK, Starters, probeVars
<1>1. ASSUME NEW t \in Starters, WifiService(t) PROVE StepsOK'
  <2>1. uipc' = uipc /\ ppc' = ppc
    BY <1>1, WifiServiceMoves DEF WifiOnly
  <2>2. CASE t = "apply"
    <3>1. wpc'["boot"] = wpc["boot"]
      BY <1>1, <2>2, WifiServiceMoves
    <3>2. QED
      BY <2>1, <3>1
  <2>3. CASE t = "boot"
    <3> USE DEF Goes, Result
    <3>1. CASE StartKnown(t) \/ StartUnknown(t) \/ CheckNetwork(t) \/ NetworkFound(t)
               \/ NoNetwork(t) \/ StartFails(t)
      BY <2>1, <2>3, <3>1 DEF StartKnown, StartUnknown, CheckNetwork, NetworkFound,
                              NoNetwork, StartFails
    <3>2. CASE Supplicant(t) \/ Configure(t) \/ Connected(t) \/ Dhcp(t)
      BY <2>1, <2>3, <3>2 DEF Supplicant, Configure, Connected, Dhcp
    <3>3. CASE NewNetwork(t) \/ SetSsid(t) \/ SetPsk(t) \/ Select(t)
      BY <2>1, <2>3, <3>3 DEF NewNetwork, SetSsid, SetPsk, Select
    <3>4. QED
      BY <1>1, <3>1, <3>2, <3>3 DEF WifiService
  <2>4. QED
    BY <2>2, <2>3
<1>2. CASE Apply
  BY <1>2 DEF Apply, ApplyBegins, ApplySsid, ApplyPass, ApplySaves, ApplyWrites,
              ApplySaveFails, ApplyReports, Disconnect, TurnOff, WifiOnly, ApplyOnly, Goes
<1>3. CASE Probe
  BY <1>3 DEF Probe, ProbeReadsHost, ProbeReadsCred, ProbeReports, ProbeNoMemory, ProbeOnly
<1>4. CASE RunWifiCall \/ RunServerCall \/ RefreshPolls
  BY <1>4 DEF RunWifiCall, RunServerCall, RefreshPolls, UiOnly
<1>5. CASE RefreshOff \/ PollDone
  BY <1>5, MaybeProbeMeans DEF RefreshOff, PollDone, RefreshPage
<1>6. CASE ServerCred \/ ServerSaves \/ ServerWrites \/ ServerSaveFails
  BY <1>6 DEF ServerCred, ServerSaves, ServerWrites, ServerSaveFails, UiOnly
<1>7. CASE ServerRequests
  BY <1>7, MaybeProbeMeans DEF ServerRequests, UiOnly
<1>8. CASE WifiApply \/ ServerApply \/ ShowPage \/ Associate \/ Interval \/ LinkLost
  BY <1>8 DEF WifiApply, ServerApply, ShowPage, Associate, Interval, LinkLost, UiOnly,
              WifiOnly
<1>9. CASE UNCHANGED vars
  BY <1>9 DEF vars
<1>10. QED
  BY <1>1, <1>2, <1>3, <1>4, <1>5, <1>6, <1>7, <1>8, <1>9 DEF Next, Ui, Touch

LEMMA FlagsStay == SettingsInv /\ FlagsOK /\ [Next]_vars => FlagsOK'
<1> SUFFICES ASSUME SettingsInv, FlagsOK, [Next]_vars PROVE FlagsOK'
  OBVIOUS
<1>1. CASE UNCHANGED vars
  BY <1>1 DEF vars, FlagsOK, IsCall, pageVars, probeVars
<1> SUFFICES ASSUME Next PROVE FlagsOK'
  BY <1>1
<1>2. ASSUME NEW i, IsCall(i, "wifi")' PROVE calls'[i].busy \in BOOLEAN
  <2>1. i \in DOMAIN calls' /\ calls'[i].of = "wifi"
    BY <1>2 DEF IsCall
  <2>2. CASE \E j : j \in DOMAIN calls /\ calls'[i] = calls[j]
    BY <2>1, <2>2 DEF FlagsOK, IsCall
  <2>3. CASE \E b \in BOOLEAN : calls'[i] = WifiCall(b)
    BY <2>3 DEF WifiCall
  <2>4. CASE \E r \in {"online", "failed", "reset"} :
                calls'[i] = [of |-> "server", state |-> r, about |-> probed]
    BY <2>1, <2>4
  <2>5. QED
    BY <2>1, <2>2, <2>3, <2>4, CallsComeOnce
<1> USE DEF FlagsOK, pageVars, probeVars
<1>3. ASSUME NEW t \in Starters, WifiService(t) PROVE FlagsOK'
  BY <1>2, <1>3, WifiServiceMoves DEF WifiOnly
<1>4. CASE Apply
  <2>1. UNCHANGED <<wifi_apply_busy, server_apply_busy, probe_busy, probe_force>>
    BY <1>4 DEF Apply, ApplyBegins, ApplySsid, ApplyPass, ApplySaves, ApplyWrites,
                ApplySaveFails, ApplyReports, Disconnect, TurnOff, ApplyOnly, WifiOnly
  <2>2. QED
    BY <1>2, <2>1
<1>5. CASE Probe
  BY <1>2, <1>5 DEF Probe, ProbeReadsHost, ProbeReadsCred, ProbeReports, ProbeNoMemory,
                     ProbeOnly
<1>6. CASE RunWifiCall
  <2>1. IsCall(1, "wifi") /\ wifi_apply_busy' = calls[1].busy
    BY <1>6, RunMeans DEF RunWifiCall, IsCall, SettingsInv, CallsOK
  <2>2. QED
    BY <1>2, <1>6, <2>1 DEF RunWifiCall
<1>7. CASE RunServerCall
  BY <1>2, <1>7 DEF RunServerCall
<1>8. ASSUME NEW link, NEW force \in BOOLEAN, MaybeProbe(link, force)
      PROVE  probe_busy' \in BOOLEAN /\ probe_force' \in BOOLEAN
  BY <1>8 DEF MaybeProbe, ProbeStarts
<1>9. CASE RefreshOff \/ PollDone
  <2>1. MaybeProbe(server_link_state, probe_force) /\ wifi_apply_busy' = wifi_apply_busy
    BY <1>9 DEF RefreshOff, PollDone, RefreshPage
  <2>2. server_apply_busy' \in BOOLEAN
    BY <1>9 DEF RefreshOff, PollDone, RefreshPage
  <2>3. QED
    BY <1>2, <1>8, <2>1, <2>2
<1>10. CASE ServerRequests
  <2>1. MaybeProbe("connecting", TRUE) /\ wifi_apply_busy' = wifi_apply_busy
    BY <1>10 DEF ServerRequests
  <2>2. server_apply_busy' \in BOOLEAN
    BY <1>10 DEF ServerRequests
  <2>3. QED
    BY <1>2, <1>8, <2>1, <2>2
<1>11. CASE RefreshPolls \/ ServerCred \/ ServerSaves \/ ServerWrites
  BY <1>2, <1>11 DEF RefreshPolls, ServerCred, ServerSaves, ServerWrites
<1>12. CASE ServerSaveFails \/ ShowPage
  BY <1>2, <1>12 DEF ServerSaveFails, ShowPage
<1>13. CASE WifiApply
  BY <1>2, <1>13 DEF WifiApply
<1>14. CASE ServerApply \/ Associate \/ LinkLost \/ Interval
  BY <1>2, <1>14 DEF ServerApply, Associate, LinkLost, Interval, WifiOnly
<1>15. QED
  BY <1>3, <1>4, <1>5, <1>6, <1>7, <1>9, <1>10, <1>11, <1>12, <1>13, <1>14
  DEF Next, Ui, Touch

LEMMA LinkStays == SettingsInv /\ LinkOK /\ [Next]_vars => LinkOK'
<1> SUFFICES ASSUME SettingsInv, LinkOK, [Next]_vars PROVE LinkOK'
  OBVIOUS
<1>1. CASE UNCHANGED vars
  BY <1>1 DEF vars, LinkOK, IsCall, pageVars
<1> SUFFICES ASSUME Next PROVE LinkOK'
  BY <1>1
<1>2. ASSUME NEW i, IsCall(i, "server")' PROVE calls'[i].state \in LinkStates \cup {"reset"}
  <2>1. i \in DOMAIN calls' /\ calls'[i].of = "server"
    BY <1>2 DEF IsCall
  <2>2. CASE \E j : j \in DOMAIN calls /\ calls'[i] = calls[j]
    BY <2>1, <2>2 DEF LinkOK, IsCall
  <2>3. CASE \E b \in BOOLEAN : calls'[i] = WifiCall(b)
    BY <2>1, <2>3 DEF WifiCall
  <2>4. CASE \E r \in {"online", "failed", "reset"} :
                calls'[i] = [of |-> "server", state |-> r, about |-> probed]
    BY <2>4 DEF LinkStates
  <2>5. QED
    BY <2>1, <2>2, <2>3, <2>4, CallsComeOnce
<1> USE DEF LinkOK, pageVars
<1>3. ASSUME NEW t \in Starters, WifiService(t) PROVE LinkOK'
  BY <1>2, <1>3, WifiServiceMoves DEF WifiOnly
<1>4. CASE Apply
  <2>1. UNCHANGED server_link_state
    BY <1>4 DEF Apply, ApplyBegins, ApplySsid, ApplyPass, ApplySaves, ApplyWrites,
                ApplySaveFails, ApplyReports, Disconnect, TurnOff, ApplyOnly, WifiOnly
  <2>2. QED
    BY <1>2, <2>1
<1>5. CASE Probe
  BY <1>2, <1>5 DEF Probe, ProbeReadsHost, ProbeReadsCred, ProbeReports, ProbeNoMemory,
                     ProbeOnly
<1>6. CASE RunServerCall
  <2>1. /\ IsCall(1, "server")
        /\ \/ calls[1].state = "reset" /\ UNCHANGED server_link_state
           \/ calls[1].state # "reset" /\ server_link_state' = calls[1].state
    BY <1>6, RunMeans DEF RunServerCall, IsCall, SettingsInv, CallsOK
  <2>2. QED
    BY <1>2, <2>1
<1>7. ASSUME NEW link \in LinkStates, NEW force, MaybeProbe(link, force)
      PROVE  server_link_state' \in LinkStates
  BY <1>7 DEF MaybeProbe, ProbeStarts, LinkStates
<1>8. CASE RefreshOff \/ PollDone \/ ServerRequests
  BY <1>2, <1>7, <1>8 DEF RefreshOff, PollDone, RefreshPage, ServerRequests, LinkStates
<1>9. CASE RunWifiCall \/ RefreshPolls \/ ServerCred \/ ServerSaves \/ ServerWrites
           \/ ServerSaveFails
  BY <1>2, <1>9 DEF RunWifiCall, RefreshPolls, ServerCred, ServerSaves, ServerWrites,
                    ServerSaveFails
<1>10. CASE Touch \/ Associate \/ LinkLost \/ Interval
  BY <1>2, <1>10 DEF Touch, WifiApply, ServerApply, ShowPage, Associate, LinkLost,
                     Interval, WifiOnly
<1>11. QED
  BY <1>3, <1>4, <1>5, <1>6, <1>8, <1>9, <1>10 DEF Next, Ui

\* For any workload: the types, among them that the page shows a state there is, a
\* password is typed for every thread that applies one, and config.ini is torn exactly
\* while somebody holds the table's mutex to save (config.c:232-258).
THEOREM SettingsTypeCorrect == Spec => []TypeOK
<1> DEFINE Types == CountOK /\ TableOK /\ WifiOK /\ StepsOK /\ FlagsOK /\ LinkOK
<1>1. Init => Types
  <2> SUFFICES ASSUME Init PROVE Types
    OBVIOUS
  <2>1. DOMAIN calls = {}
    BY DEF Init
  <2>2. wpc["apply"] = "idle" /\ wpc["boot"] = "start"
    BY DEF Init
  <2>3. CountOK
    <3>1. day \in Days
      BY DEF Init
    <3>2. Len(day.wifi) \in Nat
      BY <3>1, SettingsAssumption
    <3>3. QED
      BY <2>2, <3>2 DEF Init, CountOK
  <2>4. TableOK
    <3>1. /\ s_entries \in [ssid : Nets \cup {NoNet}, pass : Nets \cup {NoNet},
                            host : Nat, cred : Nat]
          /\ file = s_entries /\ saver = "none"
      BY SettingsAssumption DEF Init
    <3>2. "ssid" \in DOMAIN file /\ "ssid" \notin DOMAIN Torn
      BY <3>1 DEF Torn
    <3>3. QED
      BY <3>1, <3>2 DEF TableOK
  <2>5. WifiOK
    <3>1. PICK n \in {Home, NoNet} : wpa = [ssid |-> n, pass |-> n, on |-> n # NoNet]
      BY DEF Init
    <3>2. n \in Nets \cup {NoNet} /\ (n # NoNet) \in BOOLEAN
      BY SettingsAssumption
    <3> DEFINE on == n # NoNet
    <3>3. wpa = [ssid |-> n, pass |-> n, on |-> on] /\ on \in BOOLEAN
      BY <3>1, <3>2
    <3> HIDE DEF on
    <3>4. wpa \in [ssid : Nets \cup {NoNet}, pass : Nets \cup {NoNet}, on : BOOLEAN]
      BY <3>2, <3>3
    <3>5. QED
      BY <3>4 DEF Init, WifiOK, WifiStates
  <2>6. StepsOK
    BY <2>2 DEF Init, StepsOK
  <2>7. FlagsOK /\ LinkOK
    BY <2>1 DEF Init, FlagsOK, LinkOK, IsCall, LinkStates
  <2>8. QED
    BY <2>3, <2>4, <2>5, <2>6, <2>7
<1>2. SettingsInv /\ Types /\ [Next]_vars => Types'
  BY CountStays, TableStays, WifiStays, StepsStay, FlagsStay, LinkStays
<1>3. Types => TypeOK
  BY DEF TableOK, WifiOK, StepsOK, FlagsOK, LinkOK, TypeOK
<1>4. QED
  BY <1>1, <1>2, <1>3, SettingsInvariant, PTL DEF Spec
==============================================================================
