----------------------------- MODULE JujuStatus ------------------------------
(***************************************************************************)
(* The status tables of src/n2vc/utils.py: which Juju statuses end a wait, *)
(* and what a Juju status is called in the OSM database.                   *)
(***************************************************************************)

EntityType == {"machine", "application", "action", "unit"}

\* Statuses Juju reports for each type, the ones the tables name and others.
JujuStatus ==
    [machine     |-> {"pending", "started", "down"},
     application |-> {"waiting", "maintenance", "blocked", "error", "active",
                      "unknown"},
     action      |-> {"pending", "running", "completed", "failed", "cancelled"},
     unit        |-> {"waiting", "maintenance", "blocked", "error", "active",
                      "unknown"}]

\* N2VCDeploymentStatus
OsmStatus == {"PENDING", "RUNNING", "COMPLETED", "FAILED", "UNKNOWN"}

\* A unit has no entry: nobody waits for one.
FinalStatus ==
    [machine     |-> {"started"},
     application |-> {"active", "blocked"},
     action      |-> {"completed", "failed", "cancelled"}]

Workload ==
    [waiting |-> "RUNNING", maintenance |-> "RUNNING", blocked |-> "RUNNING",
     error |-> "FAILED", active |-> "COMPLETED"]

JujuStatusToOSM ==
    [machine     |-> [pending |-> "PENDING", started |-> "COMPLETED"],
     application |-> Workload,
     action      |-> [pending |-> "PENDING", running |-> "RUNNING",
                      completed |-> "COMPLETED"],
     unit        |-> Workload]

\* Variants: a status without an entry is passed on, or counts as done.
osm_status_unlisted_kept(type, status) ==
    IF status \in DOMAIN JujuStatusToOSM[type]
    THEN JujuStatusToOSM[type][status] ELSE status

osm_status_unlisted_done(type, status) ==
    IF status \in DOMAIN JujuStatusToOSM[type]
    THEN JujuStatusToOSM[type][status] ELSE "COMPLETED"

\* N2VCConnector.osm_status
osm_status(type, status) ==
    IF status \in DOMAIN JujuStatusToOSM[type]
    THEN JujuStatusToOSM[type][status] ELSE "UNKNOWN"
=============================================================================
