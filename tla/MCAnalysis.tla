------------------------------ MODULE MCAnalysis ------------------------------
(* A small case: two hosts, a script that drops a file and resolves and calls an
   external address, benign traffic, and what the shared knowledge says of them. *)
EXTENDS CaseProperties

Spellings == "EVIL" :> "evil" @@ "Drop.exe" :> "drop.exe" @@ "PowerShell.exe" :> "powershell.exe"

\* Every record the schemas accept has a rank, its id, and the texts it contains.
Record(class, id, rank, fields) ==
  [class |-> class, id |-> id, rank |-> rank, valid |-> TRUE, texts |-> {}] @@ fields

Spawn == [texts |-> {"encoded"}] @@ Record("endpoint_event", "EPE-1", 1,
  [kind |-> "process_creation", host |-> "ws1", user |-> "amy",
   process |-> "PowerShell.exe", parent |-> "winword.exe"])
Write == Record("endpoint_event", "EPE-2", 2,
  [kind |-> "file_creation", host |-> "ws1", process |-> "powershell.exe", path |-> "tmp/drop.exe"])
Logon == Record("endpoint_event", "EPE-3", 3,
  [kind |-> "authentication_success", host |-> "ws2", user |-> "amy"])
Registry == Record("endpoint_event", "EPE-4", 4, [kind |-> "registry_set", host |-> "ws2"])

FlowOut == Record("network_event", "NET-1", 1,
  [host |-> "ws2", src |-> "good", dst |-> "evil", port |-> "443", direction |-> "outbound",
   process |-> "chrome.exe"])
FlowIn == Record("network_event", "NET-2", 2,
  [host |-> "ws2", src |-> "evil", dst |-> "lan", port |-> "22", direction |-> "inbound"])
Resolve == Record("dns_event", "DNS-1", 1,
  [host |-> "ws2", src |-> "good", query |-> "site", response |-> "EVIL", type |-> "A",
   process |-> "chrome.exe"])
QuietFlow == Record("network_event", "NET-3", 3,
  [host |-> "ws3", src |-> "good", dst |-> "cdn", port |-> "443", direction |-> "outbound"])
QuietResolve == Record("dns_event", "DNS-2", 2,
  [host |-> "ws3", src |-> "good", query |-> "printer", response |-> "lan", type |-> "A"])

Dropped == Record("file_record", "FILE-1", 1,
  [host |-> "ws1", path |-> "tmp/drop.exe", name |-> "Drop.exe", hash |-> "h1",
   signature |-> "unsigned"])

Reputation(indicator, kind, rank, reputation) ==
  Record("ioc_reputation", "", rank,
    [indicator |-> indicator, kind |-> kind, source |-> "feed", reputation |-> reputation,
     confidence |-> 1])

Report(id, rank, indicators, techniques) ==
  Record("cti_record", id, rank, [indicators |-> indicators, techniques |-> techniques])

SmallCase ==
  [items |-> {Spawn, Write, Logon, Registry},
   network_events |-> {FlowOut, FlowIn, QuietFlow},
   dns_events |-> {Resolve, QuietResolve},
   files |-> {Dropped},
   records |-> {Reputation("evil", "ip", 1, "malicious"), Reputation("good", "ip", 2, "benign"),
                Reputation("h1", "sha256", 3, "malicious"),
                Reputation("lan", "ip", 4, "unknown")},
   cti_records |-> {Report("CTI-1", 1, {"EVIL"}, {"T1"}), Report("CTI-2", 2, {"ghost"}, {"T2"})},
   attack_techniques |-> {Record("attack_technique", "T1", 1, <<>>),
                          Record("attack_technique", "T2", 2, <<>>)}]

Endpoint(filter) == [tool |-> "search_endpoint_events"] @@ filter
Network(filter) == [tool |-> "search_network_activity"] @@ filter
File(filter) == [tool |-> "lookup_file_reputation"] @@ filter
Indicator(i) == [tool |-> "lookup_ioc_reputation", indicator |-> i]
Cti(filter) == [tool |-> "search_cti"] @@ filter

\* Searches that hit and miss, a rejected request, and answers of an executor
\* other than the benchmark's: an unknown tool, and a payload with a damaged record.
CaseRequests ==
  {Endpoint([host |-> "WS1"]), Endpoint([kinds |-> {}, window |-> <<1, 4>>]),
   Network([host |-> "ws2"]), Network([host |-> "ws2", exclude |-> {"network_events"}]),
   Network([dst |-> "lan", exclude |-> {"dns_events"}]), Network([host |-> "ws3"]),
   File([name |-> "drop.exe"]), File([host |-> "ws1"]), File([path |-> "damaged"]),
   Indicator("EVIL"), Indicator("good"), Indicator("lan"),
   Cti([indicator |-> "ghost"]), Cti([indicator |-> "evil"]),
   [tool |-> "search_mail"]}

Damaged == [success |-> TRUE, object |-> TRUE, more |-> {},
            lists |-> [files |-> <<[Dropped EXCEPT !.valid = FALSE], Dropped>>]]

CaseAnswers ==
  [request \in CaseRequests |->
     IF request.tool = "search_mail" THEN [success |-> TRUE, object |-> FALSE]
     ELSE IF request = File([path |-> "damaged"]) THEN Damaged
     ELSE Answer(request)]
===============================================================================
