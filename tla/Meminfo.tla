------------------------------ MODULE Meminfo ------------------------------
(***************************************************************************)
(* The meminfo sampler plugin (src/ldms/src/sampler/meminfo.c): config    *)
(* builds a metric set from /proc/meminfo (create_metric_set), sample     *)
(* copies the file into the set inside a transaction, term destroys the   *)
(* set.  The plugin keeps its state in globals: the set handle (set), the *)
(* open file (mf) and the metric handle table (metric_table).             *)
(*                                                                         *)
(* ldmsd, outside the repository's source, calls the three entry points   *)
(* one at a time in any order; each call is one step.  The ldms library   *)
(* is the environment: ldms_create_set refuses a name a live set has      *)
(* (EEXIST), and fopen, ldms_create_set, calloc and ldms_add_metric may   *)
(* fail for want of memory or descriptors when AllocMayFail.  The file's  *)
(* lines and values are data and are left out: every line parses, so    *)
(* both passes of create_metric_set see the same number of metrics.      *)
(***************************************************************************)
EXTENDS Naturals, Sequences

CONSTANTS
    SetNames,     \* values of the "set" attribute of config
    NoValue,      \* config without a "set" attribute
    NoSet,        \* set == NULL
    MaxCalls,     \* bound: plugin calls
    AllocMayFail  \* fopen, ldms_create_set, calloc, ldms_add_metric may fail

ASSUME NoValue \notin SetNames
ASSUME MaxCalls \in Nat /\ AllocMayFail \in BOOLEAN

VARIABLES
    objs,     \* objs[i]: [name, st] of the i-th set ldms_create_set made
    set,      \* the global set: an index into objs, or NoSet
    mf,       \* the global FILE *mf: "open" or "null"
    files,    \* FILE objects opened and never closed
    table,    \* metric_table: "none", "null", "partial" or "whole"
    handed,   \* history: states of the sets sample and term gave to ldms
    crashed,  \* a NULL dereference has killed the daemon
    calls     \* plugin calls made

vars == <<objs, set, mf, files, table, handed, crashed, calls>>

Live(n) == \E i \in 1..Len(objs) : objs[i].name = n /\ objs[i].st = "live"

\* Where create_metric_set stops: the early returns and error exits that
\* the library's answers lead to, or the end.
Outcomes(path) ==
    { o \in {"fopen_fail", "create_fail", "calloc_fail", "add_fail", "ok"} :
        /\ o \in {"fopen_fail", "calloc_fail", "add_fail"} => AllocMayFail
        /\ o = "create_fail" => AllocMayFail \/ Live(path)
        /\ o \in {"calloc_fail", "add_fail", "ok"} => ~Live(path) }

\* create_metric_set(path): fopen the file (the previous FILE is never
\* closed), size the metrics, ldms_create_set writing the global set,
\* calloc metric_table, add every metric; on calloc or ldms_add_metric
\* failure the set is released at err, yet set still points to it and
\* metric_table is NULL (calloc) or half filled (ldms_add_metric).
CreateMetricSet(path, o) ==
    LET new == Len(objs) + 1
        made == o \in {"calloc_fail", "add_fail", "ok"}
    IN
    /\ mf' = IF o = "fopen_fail" THEN "null" ELSE "open"
    /\ files' = IF o = "fopen_fail" THEN files ELSE files + 1
    /\ objs' = IF made
                  THEN Append(objs, [name |-> path,
                                     st |-> IF o = "ok" THEN "live" ELSE "released"])
                  ELSE objs
    /\ set' = IF made THEN new ELSE set
    /\ table' = CASE o = "calloc_fail" -> "null"
                  [] o = "add_fail"    -> "partial"
                  [] o = "ok"          -> "whole"
                  [] OTHER             -> table

Call == calls' = calls + 1 /\ UNCHANGED crashed

\* config: qc_log_dir and component_id only set globals; with a "set"
\* attribute create_metric_set runs and its result is ignored: config
\* returns 0.
Config(v) ==
    /\ calls < MaxCalls /\ ~crashed
    /\ \/ v = NoValue /\ UNCHANGED <<objs, set, mf, files, table>>
       \/ v \in SetNames /\ \E o \in Outcomes(v) : CreateMetricSet(v, o)
    /\ Call
    /\ UNCHANGED handed

\* sample: EINVAL while set is NULL.  Otherwise the transaction is begun
\* on set, mf is rewound and read, and each line is stored through
\* metric_table; fseek on a NULL mf and a NULL handle in metric_table
\* dereference NULL.
Sample ==
    /\ calls < MaxCalls /\ ~crashed
    /\ IF set = NoSet
          THEN UNCHANGED <<handed, crashed>>
          ELSE /\ handed' = handed \cup {objs[set].st}
               /\ crashed' = (mf = "null" \/ table \in {"null", "partial"})
    /\ calls' = calls + 1
    /\ UNCHANGED <<objs, set, mf, files, table>>

\* term: ldms_destroy_set on a non-NULL set, then set = NULL; mf and
\* metric_table are kept.
Term ==
    /\ calls < MaxCalls /\ ~crashed
    /\ IF set = NoSet
          THEN UNCHANGED <<objs, handed>>
          ELSE /\ handed' = handed \cup {objs[set].st}
               /\ objs' = [objs EXCEPT ![set].st = "destroyed"]
    /\ set' = NoSet
    /\ Call
    /\ UNCHANGED <<mf, files, table>>

\* The plugin is loaded: every global is zero.
Init ==
    /\ objs = <<>>
    /\ set = NoSet
    /\ mf = "null"
    /\ files = 0
    /\ table = "none"
    /\ handed = {}
    /\ crashed = FALSE
    /\ calls = 0

Next ==
    \/ \E v \in SetNames \cup {NoValue} : Config(v)
    \/ Sample
    \/ Term
    \/ (crashed \/ calls = MaxCalls) /\ UNCHANGED vars

Spec == Init /\ [][Next]_vars

-----------------------------------------------------------------------------
(* Properties *)

TypeOK ==
    /\ objs \in Seq([name : SetNames, st : {"live", "released", "destroyed"}])
    /\ set \in (1..Len(objs)) \cup {NoSet}
    /\ mf \in {"open", "null"} /\ files \in Nat
    /\ table \in {"none", "null", "partial", "whole"}

\* Every set that sample begins a transaction on, or that term destroys,
\* is one the plugin still holds: never one create_metric_set released on
\* its error path, nor one destroyed before.
SetHandedLive == handed \subseteq {"live"}
=============================================================================
