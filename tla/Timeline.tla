------------------------------- MODULE Timeline -------------------------------
(***************************************************************************)
(* The artifact timeline (forensics/ArtifactTimelineService): events made  *)
(* of the details of artifact rows, and their order.                       *)
(***************************************************************************)
EXTENDS Providers

(* An entry's event and the one Sysmon's own type adds differ for the sort.  *)
ASSUME TimelineAssumption == "evtx_event" \in ToSet(Alphabet)

(* The type of an entry's event when it has a time and when it has none; a   *)
(* link's time that is not there is no event.                                *)
NoEvent == "none"
EventTypes == [
  deletion    |-> <<"recycle_bin_deletion", "recycle_bin_deletion">>,
  created     |-> <<"lnk_created", NoEvent>>,
  modified    |-> <<"lnk_modified", NoEvent>>,
  accessed    |-> <<"lnk_accessed", NoEvent>>,
  run         |-> <<"prefetch_last_run", NoEvent>>,
  observed    |-> <<NoEvent, "prefetch_observed">>,
  visit       |-> <<"browser_visit", "browser_visit">>,
  download    |-> <<"browser_download", "browser_download_observed">>,
  run_mru     |-> <<NoEvent, "registry_run_mru">>,
  typed_path  |-> <<NoEvent, "registry_typed_path">>,
  recent_doc  |-> <<NoEvent, "registry_recent_doc">>,
  program     |-> <<"userassist_execution", "userassist_execution">>,
  application |-> <<"amcache_entry", "amcache_entry">>,
  bam         |-> <<"bam_execution", "bam_execution">>,
  dam         |-> <<"dam_execution", "dam_execution">>,
  path        |-> <<"appcompatcache_entry", "appcompatcache_entry_observed">>,
  service     |-> <<"service_config_modified", "service_config_observed">>,
  device      |-> <<"usb_device_registry_modified", "usb_device_observed">>,
  task        |-> <<"scheduled_task_registered", "scheduled_task_observed">>,
  report      |-> <<"wer_report_created", "wer_report_observed">>,
  event       |-> <<"evtx_event", "evtx_event">>,
  table       |-> <<NoEvent, "srum_metadata_table_observed">>,
  entry       |-> <<"jump_list_access", "jump_list_entry_observed">> ]

SysmonType(id) ==
  CASE id = 1 -> "sysmon_process_create" [] id = 3 -> "sysmon_network_connect"
    [] id = 4 -> "sysmon_service_state_change" [] id = 7 -> "sysmon_image_load"
    [] id = 8 -> "sysmon_remote_thread" [] id = 10 -> "sysmon_process_access"
    [] id = 11 -> "sysmon_file_create" [] id \in 12 .. 14 -> "sysmon_registry_event"
    [] id = 16 -> "sysmon_config_change" [] id \in 17 .. 18 -> "sysmon_named_pipe"
    [] id \in 19 .. 21 -> "sysmon_wmi_event" [] id = 22 -> "sysmon_dns_query"
    [] id = 25 -> "sysmon_process_tampering" [] OTHER -> NoEvent

(* from says which row and which of its entries an event was made of, 0 for  *)
(* the event that reports the state of the row.                              *)
Event(rows, i, k, type, time, d, note) ==
  [type |-> type, time |-> time, path |-> rows[i].path, profile |-> rows[i].profile,
   state |-> d.state, note |-> note, from |-> <<i, k>>]

EntryEvents(rows, i, k, d) ==
  LET e    == d.entries[k]
      type == EventTypes[e.kind][IF e.time = NoTime THEN 2 ELSE 1]
      more == IF e.kind = "event" /\ "sysmon" \in rows[i].marks /\ e.sysmon
                THEN SysmonType(e.id) ELSE NoEvent
      made(t) == IF t = NoEvent THEN <<>> ELSE <<Event(rows, i, k, t, e.time, d, d.warnings)>>
  IN  made(type) \o made(more)

\* Mutant: only failures are said.
StatusEventOfFailures(rows, i, d) ==
  IF d.state # "failed" THEN <<>>
  ELSE <<Event(rows, i, 0, "artifact_parse_status", NoTime, d, {d.error})>>

StatusEvent(rows, i, d) ==
  IF d.state \notin {"failed", "partial"} THEN <<>>
  ELSE <<Event(rows, i, 0, "artifact_parse_status", NoTime, d,
               IF d.error = "none" THEN d.warnings ELSE {d.error})>>

RowEvents(rows, i, d) ==
  IF d = NoDetails THEN <<>>
  ELSE Concat([k \in DOMAIN d.entries |-> EntryEvents(rows, i, k, d)]) \o StatusEvent(rows, i, d)

\* Mutant: the untimed sort by their time of nothing.
eventLessByTime(a, b) ==
  IF a.time # b.time THEN a.time < b.time
  ELSE IF Rank(a.type) # Rank(b.type) THEN Rank(a.type) < Rank(b.type)
  ELSE IF Rank(a.path) # Rank(b.path) THEN Rank(a.path) < Rank(b.path)
  ELSE Rank(a.profile) < Rank(b.profile)

eventLess(a, b) ==
  IF (a.time = NoTime) # (b.time = NoTime) THEN a.time # NoTime
  ELSE IF a.time # b.time THEN a.time < b.time
  ELSE IF Rank(a.type) # Rank(b.type) THEN Rank(a.type) < Rank(b.type)
  ELSE IF Rank(a.path) # Rank(b.path) THEN Rank(a.path) < Rank(b.path)
  ELSE Rank(a.profile) < Rank(b.profile)

buildEvents(rows, details) ==
  LET events == Concat([i \in DOMAIN rows |-> RowEvents(rows, i, details[i])])
      less   == {x \in (DOMAIN events) \X (DOMAIN events) : eventLess(events[x[1]], events[x[2]])}
  IN  StableSort(events, less)
=============================================================================
