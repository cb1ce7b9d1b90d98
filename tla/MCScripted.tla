----------------------------- MODULE MCScripted -----------------------------
(* A case of two external flows, one dropped file and their reputations. *)
EXTENDS ScriptedProperties, TLC

\* Every record has its place in the order of its collection.
Raw(class, rank, fields) == [class |-> class, rank |-> rank, texts |-> {}] @@ fields

Flow(rank, dst) ==
  Raw("network_event", rank, [host |-> "ws1", src |-> "lan", dst |-> dst, process |-> "ps"])

TinyCase ==
  [items |-> {Raw("endpoint_event", 1, [kind |-> "start", host |-> "ws1", process |-> "ps"]),
              Raw("endpoint_event", 2, [kind |-> "logon", host |-> "ws1", user |-> "amy"])},
   network_events |-> {Flow(1, "evil"), Flow(2, "cdn")},
   dns_events |-> {Raw("dns_event", 1, [host |-> "ws1", src |-> "dns", query |-> "site",
                                           response |-> "evil", process |-> "ps"])},
   files |-> {Raw("file_record", 1, [host |-> "ws1", name |-> "drop.exe", hash |-> "h1"])},
   records |-> {Raw("ioc_reputation", 1,
                       [indicator |-> "evil", kind |-> "ip", reputation |-> "malicious"])},
   cti_records |-> {[texts |-> {"storm"}] @@ Raw("cti_record", 1,
                      [indicators |-> {"evil"}, techniques |-> {"T1"}, campaigns |-> <<"storm">>])},
   attack_techniques |-> {Raw("attack_technique", 1, [id |-> "T1"])}]

\* An alert that names everything, and one whose searches find little.
CaseAlerts ==
  {[process |-> "ps", host |-> "ws1", kind |-> "logon", file |-> "drop.exe", dst |-> "evil", src |-> ""],
   [process |-> "", host |-> "ws9", kind |-> "start", file |-> "", dst |-> "", src |-> "lan"]}

\* Limits that never bite, a short history, one of 0 (which cuts nothing), little
\* room, and less than is needed.
CaseBuilders ==
  {[history |-> 12, length |-> 100], [history |-> 2, length |-> 100], [history |-> 0, length |-> 26],
   [history |-> 12, length |-> 26], [history |-> 12, length |-> 19],
   [history |-> 12, length |-> 9]}

NoFold == <<>>
=============================================================================
