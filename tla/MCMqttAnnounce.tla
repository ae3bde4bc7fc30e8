--------------------------- MODULE MCMqttAnnounce ---------------------------
(***************************************************************************)
(* MqttAnnounce for TLC: two configurations that share neither their       *)
(* document nor one of their sources; a source that fails; a reading that  *)
(* changes nothing urgent.                                                 *)
(***************************************************************************)
EXTENDS MqttAnnounce

\* State -> configuration, statuses of cpu and disk, urgent key.
MCTable ==
  [ok     |-> [config |-> "one", cpu |-> "online",  disk |-> "",       key |-> "ok"],
   warmer |-> [config |-> "one", cpu |-> "online",  disk |-> "",       key |-> "ok"],
   failed |-> [config |-> "one", cpu |-> "offline", disk |-> "",       key |-> "failed"],
   other  |-> [config |-> "two", cpu |-> "",        disk |-> "online", key |-> "other"]]

MCConfigOf == [s \in States |-> MCTable[s].config]
MCStatusOf == [s \in States |-> [x \in Sources |->
                IF x = "cpu" THEN MCTable[s].cpu ELSE MCTable[s].disk]]
MCKeyOf == [s \in States |-> MCTable[s].key]
MCDocsOf == [one |-> {"cpu_sensor"}, two |-> {"disk_sensor"}]

=============================================================================
