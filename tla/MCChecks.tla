------------------------------ MODULE MCChecks ------------------------------
(***************************************************************************)
(* The subjects of the checks, for TLC.                                    *)
(***************************************************************************)
EXTENDS Checks

SomeContainers(reasons, oom) == [waiting : {"no"} \cup reasons, oom : oom]

\* Two matches, which are enough for a panic only, or ten in a pod that restarts.
\* A pod that runs uses much memory.  One that is being deleted is passed over,
\* whatever its containers do.
Pods == {p \in [kind : {"pod"}, deleted : BOOLEAN, age : {0}, pending : BOOLEAN,
         ready : BOOLEAN, restarts : {0, RestartWarningCount},
         memory : {"memory-high", "memory-normal"},
         missing : {{"missing-memory-limit", "missing-cpu-request"}},
         log : {[x \in LogPatterns |-> n] : n \in {2, 10}},
         c1 : SomeContainers({"CrashLoopBackOff", "ContainerCreating", ""}, BOOLEAN),
         c2 : SomeContainers({"CrashLoopBackOff", "ImagePullBackOff"}, {FALSE})]
         : /\ p.pending => ~p.ready
           /\ p.restarts = 0 <=> p.log["log-panic"] = 2
           /\ p.pending <=> p.memory = "memory-normal"
           /\ p.deleted => ~p.ready /\ p.c1.oom /\ p.c2.waiting = "no"}

\* The second event does not recur, so that it does not matter how it is dated.
SomeEvents(reasons, options) ==
    [warning : options, reason : reasons, stamped : options, first : {0},
     last : {0}]

EventPairs == [kind : {"events"},
           e1 : SomeEvents({"FailedMount", "BackOff"}, BOOLEAN),
           e2 : SomeEvents({"BackOff", "failed_mount", ""}, {TRUE})]

Workloads == [kind : {"workload"}, desired : 0..2, ready : 0..2, lag : BOOLEAN,
              list : {"deployments", "statefulsets", "daemonsets"}]

Services == [kind : {"service"}, deleted : BOOLEAN, ingress : BOOLEAN,
             type : {"ClusterIP", "LoadBalancer", "ExternalName"},
             selector : BOOLEAN, matches : 0..1]

Claims == [kind : {"pvc"}, deleted : BOOLEAN,
           phase : {"Pending", "Bound", "Lost"},
           conditions : SUBSET {"resizing", "file-system-resize-pending"}]

Scalers == [kind : {"hpa"}, deleted : BOOLEAN, active : BOOLEAN, able : BOOLEAN,
            limited : BOOLEAN, current : 0..1, desired : 0..2, max : {1}]

\* Resources of other groups are passed over, whatever else they are.
Customs == {r \in [kind : {"custom"}, group : {"example.com", "other.com", "apps"},
           namespaced : BOOLEAN, listed : BOOLEAN, lag : {TRUE},
           conditions : [{"ready", "stalled"} -> {"True", "False", "Unknown"}]]
           : r.group # "example.com" => r.namespaced /\ r.listed}

Everything == Pods \cup EventPairs \cup Workloads \cup Services \cup Claims
              \cup Scalers \cup Customs \cup Nothing

AllOrOne   == {Families} \cup {{c} : c \in Families}
AllOfOther == {<<"other.com", "*">>}
NoneOrOne  == {{}} \cup {{l} : l \in Lists \cup Calls}
=============================================================================
