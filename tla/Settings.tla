------------------------------ MODULE Settings -------------------------------
(* The settings page and what it drives: the configuration table and its file   *)
(* (config/config.c), the Wi-Fi service (services/wifi_service.c), which the    *)
(* bootstrap thread and the page's apply thread run side by side while the UI   *)
(* polls it, the probe of the remote server (ui/ui_manager.c), and LVGL's list  *)
(* of asynchronous calls, through which the threads answer the page.            *)
EXTENDS Naturals, Sequences

CONSTANTS
    Nets,           \* names of networks; a network's password is its name
    Home,           \* the one the program may be configured for when it starts
    NoNet,          \* no network, an empty string
    Days            \* workloads: is a network configured at boot, what is typed in the
                    \* Wi-Fi page, how often the server's is applied, which faults
                    \* there may be (a file, a command or a thread that fails, a link
                    \* that is lost, a server or UI that is slow, a call to the page
                    \* that gets lost)

WifiStates == {"off", "connecting", "connected", "failed"}
LinkStates == {"unconfigured", "connecting", "online", "failed"}
Starters == {"boot", "apply"}
Faults == {"save", "wifi", "thread", "lost", "slow", "post"}

ASSUME SettingsAssumption ==
    /\ Home \in Nets /\ NoNet \notin Nets
    /\ \A d \in Days : d \in [known : BOOLEAN, wifi : Seq(Nets \X Nets), server : Nat,
                              faults : SUBSET Faults]

VARIABLES
    day,            \* the workload
    wifis, servers, \* how often either page was applied
    s_entries,      \* the table: Wi-Fi name and password, version of the server's
                    \* address and of its credentials (0: not configured)
    file,           \* config.ini, or Torn while it is rewritten
    saver,          \* who holds the table's mutex to save
    s_state,        \* the Wi-Fi service's state
    wpa,            \* wpa_supplicant's network 0, and whether it is selected
    assoc,          \* the network the interface is on
    wpc,            \* place of the two threads in the Wi-Fi service
    uipc,           \* place of the UI thread
    wifi_apply_busy, server_apply_busy,
    probe_busy, probe_force,
    due,            \* the last probe began 5 s ago
    ppc,            \* place of the probe thread
    probed,         \* what it read
    server_link_state,
    shownOf,        \* the configuration the shown result is about (history)
    calls           \* LVGL's asynchronous calls, the next one first

tableVars == <<s_entries, file, saver>>
wifiVars == <<s_state, wpa, assoc>>
pageVars == <<wifi_apply_busy, server_apply_busy, server_link_state, shownOf>>
probeVars == <<probe_busy, probe_force, due, ppc, probed>>
count == <<wifis, servers>>
vars == <<day, count, tableVars, wifiVars, wpc, uipc, pageVars, probeVars, calls>>

Torn == [torn |-> TRUE]
Server == [host |-> s_entries.host, cred |-> s_entries.cred]

\* lv_async_call puts the call at the head of the list that lv_timer_handler walks from
\* its head: the newest runs first.  It is made without a lock and what it carries is
\* allocated: where that goes wrong nobody is called.
Post(c) == \/ calls' = <<c>> \o calls
           \/ "post" \in day.faults /\ calls' = calls

WifiCall(busy) == [of |-> "wifi", busy |-> busy]

------------------------------------------------------------------------------
\* config_save, under the table's mutex: the file is emptied, then written.

SaveOpen(t) ==
    /\ saver = "none"
    /\ saver' = t /\ file' = Torn
    /\ UNCHANGED s_entries

SaveWrite(t) ==
    /\ saver = t
    /\ saver' = "none" /\ file' = s_entries
    /\ UNCHANGED s_entries

ConfigSet(key, value) ==
    /\ saver = "none"
    /\ s_entries' = [s_entries EXCEPT ![key] = value]
    /\ UNCHANGED <<file, saver>>

------------------------------------------------------------------------------
\* The Wi-Fi service.  Both threads pass pointers into the table, so that they always
\* use what it holds when a command is put together.

Goes(t, from, to) == wpc[t] = from /\ wpc' = [wpc EXCEPT ![t] = to]

\* What the steps of the Wi-Fi service leave alone.
WifiOnly == UNCHANGED <<day, count, tableVars, uipc, pageVars, probeVars, calls>>

\* The end of wifi_service_start: the bootstrap goes on, the page is told.
Result(t) == IF t = "boot" THEN "idle" ELSE "report"

StartKnown(t) ==
    /\ Goes(t, "start", "supplicant") /\ s_entries.ssid # NoNet
    /\ s_state' = "connecting"
    /\ WifiOnly /\ UNCHANGED <<wpa, assoc>>

StartUnknown(t) ==
    /\ Goes(t, "start", "check") /\ s_entries.ssid = NoNet
    /\ WifiOnly /\ UNCHANGED wifiVars

\* Nobody configured a network: is there one all the same?
CheckNetwork(t) ==
    /\ Goes(t, "check", IF assoc = NoNet THEN "offline" ELSE "online")
    /\ WifiOnly /\ UNCHANGED wifiVars

NetworkFound(t) ==
    /\ Goes(t, "online", Result(t))
    /\ s_state' = "connected"
    /\ WifiOnly /\ UNCHANGED <<wpa, assoc>>

NoNetwork(t) ==
    /\ Goes(t, "offline", Result(t))
    /\ s_state' = "off"
    /\ WifiOnly /\ UNCHANGED <<wpa, assoc>>

\* wifi_start_supplicant and wifi_dhcp may fail, and the wait end after 30 s.
FailsAt(t) == \/ wpc[t] \in {"supplicant", "dhcp"} /\ "wifi" \in day.faults
              \/ wpc[t] = "wait" /\ assoc = NoNet

StartFails(t) ==
    /\ FailsAt(t)
    /\ wpc' = [wpc EXCEPT ![t] = Result(t)]
    /\ s_state' = "failed"
    /\ WifiOnly /\ UNCHANGED <<wpa, assoc>>

Supplicant(t) ==
    /\ Goes(t, "supplicant", "configure")
    /\ WifiOnly /\ UNCHANGED wifiVars

\* wifi_configure: nothing to do on the right network.
ConfigureAny(t) ==
    /\ wpc[t] = "configure"
    /\ wpc' = [wpc EXCEPT ![t] = IF assoc # NoNet THEN "dhcp" ELSE "remove"]
    /\ WifiOnly /\ UNCHANGED wifiVars

Configure(t) ==
    /\ wpc[t] = "configure"
    /\ wpc' = [wpc EXCEPT ![t] = IF assoc # NoNet /\ assoc = s_entries.ssid
                                   THEN "dhcp" ELSE "remove"]
    /\ WifiOnly /\ UNCHANGED wifiVars

\* remove_network all and add_network.  The number of the new network is 0 unless the
\* other thread has just added one, which then gets the same values.
NewNetwork(t) ==
    /\ Goes(t, "remove", "ssid")
    /\ wpa' = [ssid |-> NoNet, pass |-> NoNet, on |-> FALSE]
    /\ assoc' = NoNet
    /\ WifiOnly /\ UNCHANGED s_state

SetSsid(t) ==
    /\ Goes(t, "ssid", "psk")
    /\ wpa' = [wpa EXCEPT !.ssid = s_entries.ssid]
    /\ WifiOnly /\ UNCHANGED <<s_state, assoc>>

SetPsk(t) ==
    /\ Goes(t, "psk", "select")
    /\ wpa' = [wpa EXCEPT !.pass = s_entries.pass]
    /\ WifiOnly /\ UNCHANGED <<s_state, assoc>>

Select(t) ==
    /\ Goes(t, "select", "wait")
    /\ wpa' = [wpa EXCEPT !.on = TRUE]
    /\ WifiOnly /\ UNCHANGED <<s_state, assoc>>

Connected(t) ==
    /\ Goes(t, "wait", "dhcp") /\ assoc # NoNet
    /\ WifiOnly /\ UNCHANGED wifiVars

\* wifi_dhcp, wifi_setup_dns and wifi_sync_time.
Dhcp(t) ==
    /\ Goes(t, "dhcp", Result(t))
    /\ s_state' = "connected"
    /\ WifiOnly /\ UNCHANGED <<wpa, assoc>>

\* wifi_service_stop.
Disconnect ==
    /\ Goes("apply", "stop", "off")
    /\ wpa' = [wpa EXCEPT !.on = FALSE] /\ assoc' = NoNet
    /\ WifiOnly /\ UNCHANGED s_state

TurnOff ==
    /\ Goes("apply", "off", "start")
    /\ s_state' = "off"
    /\ WifiOnly /\ UNCHANGED <<wpa, assoc>>

WifiService(t) ==
    \/ StartKnown(t) \/ StartUnknown(t) \/ CheckNetwork(t) \/ NetworkFound(t)
    \/ NoNetwork(t) \/ StartFails(t) \/ Supplicant(t) \/ Configure(t) \/ NewNetwork(t)
    \/ SetSsid(t) \/ SetPsk(t) \/ Select(t) \/ Connected(t) \/ Dhcp(t)

\* wpa_supplicant joins the selected network if the password is right.
Associate ==
    /\ wpa.on /\ assoc = NoNet /\ wpa.ssid \in Nets /\ wpa.pass = wpa.ssid
    /\ assoc' = wpa.ssid
    /\ WifiOnly /\ UNCHANGED <<s_state, wpa, wpc>>

LinkLost ==
    /\ "lost" \in day.faults /\ assoc # NoNet
    /\ day' = [day EXCEPT !.faults = @ \ {"lost"}]
    /\ assoc' = NoNet
    /\ UNCHANGED <<count, tableVars, s_state, wpa, wpc, uipc, pageVars,
                   probeVars, calls>>

------------------------------------------------------------------------------
\* settings_wifi_apply_thread.

\* The name and the password it was given.
Typed == day.wifi[wifis]

\* What its own steps leave alone.
ApplyOnly == UNCHANGED <<day, count, wifiVars, uipc, pageVars, probeVars>>

ApplyBegins ==
    /\ Goes("apply", "begin", "setSsid")
    /\ Post(WifiCall(TRUE))
    /\ ApplyOnly /\ UNCHANGED tableVars

ApplySsid ==
    /\ Goes("apply", "setSsid", "setPass")
    /\ ConfigSet("ssid", Typed[1])
    /\ ApplyOnly /\ UNCHANGED calls

ApplyPass ==
    /\ Goes("apply", "setPass", "save")
    /\ ConfigSet("pass", Typed[2])
    /\ ApplyOnly /\ UNCHANGED calls

ApplySaves ==
    /\ Goes("apply", "save", "write") /\ SaveOpen("apply")
    /\ ApplyOnly /\ UNCHANGED calls

ApplyWrites ==
    /\ Goes("apply", "write", "stop") /\ SaveWrite("apply")
    /\ ApplyOnly /\ UNCHANGED calls

\* The file cannot be opened: the page is told at once, and maybe sees that before
\* what ApplyBegins told it.
ApplySaveFails ==
    /\ "save" \in day.faults /\ saver = "none"
    /\ Goes("apply", "save", "idle")
    /\ Post(WifiCall(FALSE))
    /\ ApplyOnly /\ UNCHANGED tableVars


ApplyReports ==
    /\ Goes("apply", "report", "idle")
    /\ Post(WifiCall(FALSE))
    /\ ApplyOnly /\ UNCHANGED tableVars

Apply == \/ ApplyBegins \/ ApplySsid \/ ApplyPass \/ ApplySaves \/ ApplyWrites
         \/ ApplySaveFails \/ ApplyReports \/ Disconnect \/ TurnOff

------------------------------------------------------------------------------
\* ui_server_probe_thread: the address and the credentials are read one by one.

ProbeOnly == UNCHANGED <<day, count, tableVars, wifiVars, wpc, uipc, pageVars,
                         probe_busy, probe_force, due>>

ProbeReadsHost ==
    /\ ppc = "host" /\ ppc' = "cred"
    /\ probed' = [probed EXCEPT !.host = s_entries.host]
    /\ ProbeOnly /\ UNCHANGED calls

ProbeReadsCred ==
    /\ ppc = "cred" /\ ppc' = "net"
    /\ probed' = [probed EXCEPT !.cred = s_entries.cred]
    /\ ProbeOnly /\ UNCHANGED calls

ProbeReports(r) ==
    /\ ppc = "net" /\ ppc' = "idle"
    /\ Post([of |-> "server", state |-> r, about |-> probed])
    /\ ProbeOnly /\ UNCHANGED probed

\* Without memory for the answer the thread only resets probe_busy.
ProbeNoMemory ==
    /\ "post" \in day.faults
    /\ ppc = "host" /\ ppc' = "idle"
    /\ Post([of |-> "server", state |-> "reset", about |-> probed])
    /\ ProbeOnly /\ UNCHANGED probed

------------------------------------------------------------------------------
\* The UI thread.

\* What its steps leave alone.
UiOnly == UNCHANGED <<day, wifiVars, wpc>>

\* lv_timer_handler begins with the asynchronous calls: another timer runs when there
\* is none.
Idle == uipc = "loop" /\ calls = <<>>

\* settings_apply_wifi_status_async.
RunWifiCall ==
    /\ uipc = "loop" /\ calls # <<>> /\ Head(calls).of = "wifi"
    /\ wifi_apply_busy' = Head(calls).busy
    /\ calls' = Tail(calls)
    /\ UiOnly /\ UNCHANGED <<count, tableVars, uipc, server_apply_busy,
                             server_link_state, shownOf, probeVars>>

\* ui_apply_server_status_async and ui_server_probe_reset_async.
RunServerCall ==
    /\ uipc = "loop" /\ calls # <<>> /\ Head(calls).of = "server"
    /\ probe_busy' = FALSE
    /\ IF Head(calls).state = "reset"
         THEN UNCHANGED <<server_link_state, shownOf>>
         ELSE /\ server_link_state' = Head(calls).state
              /\ shownOf' = Head(calls).about
    /\ calls' = Tail(calls)
    /\ UiOnly /\ UNCHANGED <<count, tableVars, uipc, wifi_apply_busy,
                             server_apply_busy, probe_force, due, ppc, probed>>

\* ui_maybe_probe_server, when the server's state shown so far is link.
Configured == s_entries.host # 0 /\ s_entries.cred # 0

ProbeStarts(link) ==
    /\ probe_force' = FALSE /\ due' = FALSE
    /\ \/ /\ probe_busy' = TRUE /\ ppc' = "host"
          /\ server_link_state' = IF link = "online" THEN link ELSE "connecting"
          /\ shownOf' = shownOf
       \/ /\ "thread" \in day.faults
          /\ server_link_state' = "failed" /\ shownOf' = Server
          /\ UNCHANGED <<probe_busy, ppc>>
    /\ probed' = probed

MaybeProbeForgets(link, force) ==
    \/ /\ ~(Configured /\ ~probe_busy /\ (force \/ due))
       /\ server_link_state' = IF Configured THEN link ELSE "unconfigured"
       /\ probe_force' = FALSE /\ UNCHANGED <<shownOf, probe_busy, due, ppc, probed>>
    \/ Configured /\ ~probe_busy /\ (force \/ due) /\ ProbeStarts(link)

MaybeProbeAtOnce(link, force) ==
    \/ /\ ~(Configured /\ (force \/ (~probe_busy /\ due)))
       /\ server_link_state' = IF Configured THEN link ELSE "unconfigured"
       /\ probe_force' = force /\ UNCHANGED <<shownOf, probe_busy, due, ppc, probed>>
    \/ Configured /\ (force \/ (~probe_busy /\ due)) /\ ProbeStarts(link)

\* A request for a probe stays while another is under way.
MaybeProbe(link, force) ==
    \/ /\ ~(Configured /\ ~probe_busy /\ (force \/ due))
       /\ server_link_state' = IF Configured THEN link ELSE "unconfigured"
       /\ probe_force' = force /\ UNCHANGED <<shownOf, probe_busy, due, ppc, probed>>
    \/ Configured /\ ~probe_busy /\ (force \/ due) /\ ProbeStarts(link)

\* ui_refresh_timer_cb.  A service that is off is not asked; wifi_service_poll_state looks
\* at s_state, asks wpa_cli, and then writes s_state, which the header shows.
RefreshPolls ==
    /\ Idle /\ s_state # "off" /\ uipc' = "poll"
    /\ UiOnly /\ UNCHANGED <<count, tableVars, pageVars, probeVars, calls>>

\* The rest: the probe, and page_settings_refresh, which sets the button by what is shown.
RefreshPage ==
    /\ uipc' = "loop"
    /\ MaybeProbe(server_link_state, probe_force)
    /\ server_apply_busy' = (server_link_state' = "connecting")
    /\ UNCHANGED <<day, count, tableVars, wpa, assoc, wpc, wifi_apply_busy, calls>>

RefreshOff == Idle /\ s_state = "off" /\ s_state' = s_state /\ RefreshPage

\* wifi_state_from_status: a selected network is scanned for, or given up for a while.
Status == IF assoc # NoNet THEN {"connected"}
          ELSE IF wpa.on THEN {"connecting", "failed"} ELSE {"failed"}

PollDone == uipc = "poll" /\ s_state' \in Status /\ RefreshPage

\* The 5 s since the last probe pass, most of them after its answer was shown; a slow
\* server takes as long to answer, one that cannot be reached is given up only then, and
\* a UI that sends a reply meanwhile looks at the answer only then.
Interval ==
    /\ ~due /\ due' = TRUE
    /\ \/ "slow" \in day.faults
       \/ Idle /\ ~probe_busy /\ (server_apply_busy => server_link_state = "connecting")
    /\ UiOnly
    /\ UNCHANGED <<count, tableVars, uipc, pageVars, probe_busy, probe_force, ppc,
                   probed, calls>>

\* page_settings_refresh also runs when the page is opened and when the chat shows an event.
ShowPage ==
    /\ Idle /\ server_apply_busy' = (server_link_state = "connecting")
    /\ UiOnly /\ UNCHANGED <<count, tableVars, uipc, wifi_apply_busy,
                             server_link_state, shownOf, probeVars, calls>>

\* settings_wifi_apply_event_cb.
WifiApply ==
    /\ Idle /\ ~wifi_apply_busy /\ wifis < Len(day.wifi)
    /\ wifis' = wifis + 1
    /\ \/ wpc' = [wpc EXCEPT !["apply"] = "begin"] /\ wifi_apply_busy' = TRUE
       \/ "thread" \in day.faults /\ UNCHANGED <<wpc, wifi_apply_busy>>
    /\ UNCHANGED <<day, servers, tableVars, wifiVars, uipc, server_apply_busy,
                   server_link_state, shownOf, probeVars, calls>>

\* settings_server_apply_event_cb: the table, the file, and a probe of the new server.
ServerApply ==
    /\ Idle /\ ~server_apply_busy /\ servers < day.server
    /\ ConfigSet("host", servers + 1)
    /\ servers' = servers + 1 /\ uipc' = "setCred"
    /\ UiOnly /\ UNCHANGED <<wifis, pageVars, probeVars, calls>>

ServerCredUnsaved ==
    /\ uipc = "setCred" /\ uipc' = "request"
    /\ ConfigSet("cred", servers)
    /\ UiOnly /\ UNCHANGED <<count, pageVars, probeVars, calls>>

ServerCred ==
    /\ uipc = "setCred" /\ uipc' = "save"
    /\ ConfigSet("cred", servers)
    /\ UiOnly /\ UNCHANGED <<count, pageVars, probeVars, calls>>

ServerSaves ==
    /\ uipc = "save" /\ uipc' = "write" /\ SaveOpen("ui")
    /\ UiOnly /\ UNCHANGED <<count, pageVars, probeVars, calls>>

ServerWrites ==
    /\ uipc = "write" /\ uipc' = "request" /\ SaveWrite("ui")
    /\ UiOnly /\ UNCHANGED <<count, pageVars, probeVars, calls>>

ServerSaveFails ==
    /\ "save" \in day.faults /\ saver = "none"
    /\ uipc = "save" /\ uipc' = "loop"
    /\ server_apply_busy' = (server_link_state = "connecting")
    /\ UiOnly /\ UNCHANGED <<count, tableVars, wifi_apply_busy,
                             server_link_state, shownOf, probeVars, calls>>

\* ui_manager_request_server_probe.
ServerRequests ==
    /\ uipc = "request" /\ uipc' = "loop"
    /\ MaybeProbe("connecting", TRUE)
    /\ server_apply_busy' = (server_link_state' = "connecting")
    /\ UiOnly /\ UNCHANGED <<count, tableVars, wifi_apply_busy, calls>>

Ui == \/ RunWifiCall \/ RunServerCall
      \/ RefreshPolls \/ RefreshOff \/ PollDone
      \/ ServerCred \/ ServerSaves \/ ServerWrites \/ ServerSaveFails \/ ServerRequests

------------------------------------------------------------------------------
\* The program has read its configuration and the bootstrap thread begins with Wi-Fi.
\* The interface may be on a network from before.
Init ==
    /\ day \in Days
    /\ \E known \in {IF day.known THEN Home ELSE NoNet} :
          s_entries = [ssid |-> known, pass |-> known, host |-> 0, cred |-> 0]
    /\ wpa \in {[ssid |-> s, pass |-> s, on |-> s # NoNet] : s \in {Home, NoNet}}
    /\ wifis = 0 /\ servers = 0
    /\ file = s_entries /\ saver = "none"
    /\ s_state = "off" /\ assoc = NoNet
    /\ wpc = [boot |-> "start", apply |-> "idle"]
    /\ uipc = "loop"
    /\ wifi_apply_busy = FALSE /\ server_apply_busy = FALSE
    /\ probe_busy = FALSE /\ probe_force = TRUE /\ due = TRUE /\ ppc = "idle"
    /\ probed = [host |-> 0, cred |-> 0]
    /\ server_link_state = "unconfigured" /\ shownOf = [host |-> 0, cred |-> 0]
    /\ calls = <<>>

Touch == WifiApply \/ ServerApply \/ ShowPage

Probe == \/ ProbeReadsHost \/ ProbeReadsCred \/ ProbeNoMemory
         \/ \E r \in {"online", "failed"} : ProbeReports(r)

Next == \/ Ui \/ Touch \/ Probe \/ Apply
        \/ \E t \in Starters : WifiService(t)
        \/ Associate \/ LinkLost \/ Interval

Spec == Init /\ [][Next]_vars

\* The threads run, and a network in range is joined.  Nobody owes the page a touch.
FairSpec == /\ Spec /\ WF_vars(Ui) /\ WF_vars(Probe) /\ WF_vars(Apply)
            /\ \A t \in Starters : WF_vars(WifiService(t))
            /\ WF_vars(Associate)

------------------------------------------------------------------------------
TypeOK ==
    /\ s_entries \in [ssid : Nets \cup {NoNet}, pass : Nets \cup {NoNet},
                      host : Nat, cred : Nat]
    /\ saver \in {"none", "apply", "ui"}
    /\ saver = "none" <=> file # Torn
    /\ s_state \in WifiStates
    /\ wpa \in [ssid : Nets \cup {NoNet}, pass : Nets \cup {NoNet}, on : BOOLEAN]
    /\ assoc \in Nets \cup {NoNet}
    /\ uipc \in {"loop", "poll", "setCred", "save", "write", "request"}
    /\ wpc["boot"] \in {"start", "check", "online", "offline", "supplicant", "configure",
                        "remove", "ssid", "psk", "select", "wait", "dhcp", "idle"}
    /\ wifi_apply_busy \in BOOLEAN /\ server_apply_busy \in BOOLEAN
    /\ probe_busy \in BOOLEAN /\ probe_force \in BOOLEAN
    /\ ppc \in {"idle", "host", "cred", "net"}
    /\ server_link_state \in LinkStates

\* There is never a second apply thread or a second probe: the button is grey from the
\* touch until the thread's last word was run, and busy from the start of a probe until
\* its answer was, in whatever order the calls are run (page_settings.c:451,
\* ui_manager.c:290).
OneAtATime ==
    /\ wpc["apply"] # "idle" => wifi_apply_busy
    /\ ppc # "idle" => probe_busy
    /\ \A i \in DOMAIN calls : calls[i].of = "server" => probe_busy /\ ppc = "idle"

\* Between the changes the file holds what the table holds, though two threads change
\* and save it at the same time and a save writes whatever is in the table
\* (config.c:232-258).
FileFollowsTable ==
    \/ wpc["apply"] \in {"setPass", "save", "write"}
    \/ uipc \in {"setCred", "save", "write"}
    \/ "save" \in day.faults
    \/ file = s_entries

\* In the end the interface is on the network that was applied last or on none, and the
\* state shown is right, though the bootstrap, the apply thread and the poll all run
\* commands and write s_state at the same time.  Without a network at boot it may not:
\* the bootstrap's late "off" is never looked into again (wifi_service.c:348, 406).
WifiSettles ==
    day.known /\ day.faults \cap {"save", "wifi"} = {} =>
        <>[](/\ assoc \in {NoNet, s_entries.ssid}
             /\ s_state = "connected" <=> assoc # NoNet)

\* After an apply the page ends up showing how the server it names answers, also when a
\* probe of the former one was under way, or had read half of the new settings.  The
\* exception is a lost answer: probe_busy then stays set, and nobody asks again.
ProbeAnswers ==
    "post" \in day.faults
    \/ (uipc = "request" ~> server_link_state \in {"online", "failed"} /\ shownOf = Server)

\* The apply thread's two words waited together: its last one then runs first.
BothWait == \E i, j \in DOMAIN calls : /\ i # j
                                      /\ calls[i].of = "wifi" /\ calls[j].of = "wifi"

==============================================================================
