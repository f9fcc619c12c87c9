---------------------------- MODULE ParallelSearch ----------------------------
(* A search called with a host policy (__parallel_find of parallel_impl.h) or   *)
(* with a device policy (__parallel_find_or of the SYCL backend). A behaviour   *)
(* is one call; the other function stands where a call on a range without       *)
(* tasks has left it.                                                          *)
EXTENDS ParallelFind, SyclFindOr

VARIABLE policy              \* of the call: "host" or "device"

allVars == <<policy, vars, findVars>>

HostIdle ==
  /\ n = 0 /\ isFirst = TRUE /\ match = {} /\ chunks = {}
  /\ extremum = 0 /\ pc = << >> /\ res = << >> /\ old = << >>
  /\ answer = Running

DeviceIdle ==
  /\ len = 1 /\ tag = "or" /\ accept = {} /\ groups = 1
  /\ stage = << >> /\ todo = << >> /\ read = << >> /\ foundLocal = << >>
  /\ foundGlobal = 0
  /\ found = Nothing

SearchInit ==
  \/ policy = "host" /\ Init /\ DeviceIdle
  \/ policy = "device" /\ HostIdle /\ FindInit

SearchNext ==
  \/ policy = "host" /\ Next /\ UNCHANGED <<policy, findVars>>
  \/ policy = "device" /\ FindNext /\ UNCHANGED <<policy, vars>>

(* Some task of the call always keeps running, and weak compare-and-swaps that  *)
(* could succeed again and again do not all fail spuriously for ever. Nothing   *)
(* is asked of one particular task: the search is lock-free. The device runs    *)
(* the work-items of a group up to their barrier, and its strong compare-and-   *)
(* swap fails only when another one stored.                                    *)
SearchSpec ==
  /\ SearchInit /\ [][SearchNext]_allVars
  /\ WF_allVars(SearchNext)
  /\ SF_vars(\E c \in chunks : CasStore(c))
-------------------------------------------------------------------------------
\* Every search ends: no retry loop of either backend is a livelock
\* (parallel_impl.h:58, parallel_backend_sycl.h:809 and 910).
EverySearchEnds ==
  <>(IF policy = "host" THEN answer # Running ELSE found # Nothing)
===============================================================================
