---------------------------- MODULE MCOrgQueue ----------------------------
(* Instances of OrgQueue: one person, two workers.                         *)
EXTENDS OrgQueue

(* Two workers at a time outlive their leases and fail.                    *)
Leases == {"deactivate", "reactivate", "role", "people", "fail", "parallel"}

(* Workers fail and die, Keycloak is away.                                 *)
Deaths == {"deactivate", "reactivate", "role", "people", "fail", "crash", "outage"}

(* Keycloak is changed past the administrator, and the rows follow it.     *)
Follow == {"deactivate", "reactivate", "role", "console", "reconciler"}

Everyday == {Leases, Deaths, Follow \cup {"fail"}}

OneByOne == {Deaths, Follow}

(* Nothing fails but the process.                                          *)
Dying == {{"deactivate", "reactivate", "crash"}}
=============================================================================
