------------------------------ MODULE Exporters ------------------------------
(***************************************************************************)
(* The two exporters of the bridge, bridge/prometheus_exporter.py and      *)
(* bridge/otlp_exporter.py, for one device. The loop of the bridge writes  *)
(* gauge after gauge and dictionary entry after entry, while the server    *)
(* thread answers a scrape and the export thread of OpenTelemetry iterates *)
(* over a dictionary.                                                      *)
(***************************************************************************)
EXTENDS Naturals, Sequences, SequencesExt

CONSTANTS
    DeviceStates,  \* the states StateManager may hand out, see DeviceState
    Name,          \* task names
    StateNames,    \* the task states of _STATE_NAMES, in its order
    Value,         \* the values of all other fields
    None           \* not a device state

(* The gauges of a device, in the order update_metrics sets them, and those *)
(* of a task.                                                               *)
DeviceGauges == <<"heap_free", "heap_min_ever", "oom_projection", "cpu_utilization",
                  "packet_loss">>
TaskGauges == <<"stack_watermark", "cpu_ratio">>

(* The order the families are registered in. *)
Families == <<"task_state">> \o TaskGauges \o DeviceGauges

(* The dictionaries of the OTLP exporter that have an entry per task. *)
Tables == {"task_state"} \cup Range(TaskGauges)

DeviceState ==
    [device : [Range(DeviceGauges) -> Value],
     tasks  : Seq([name : Name, state : Range(StateNames),
                   gauge : [Range(TaskGauges) -> Value]])]

ASSUME ExporterAssumption ==
    /\ DeviceStates \subseteq DeviceState
    /\ Value \subseteq Nat
    /\ {0, 1} \subseteq Value
    /\ StateNames \in Seq(Range(StateNames))
    /\ None \notin DeviceStates

VARIABLES
    current,   \* the state being pushed, or the last one
    shown,     \* the last one whose push is complete
    written,   \* how many of its writes are done
    gauge,     \* Prometheus: the value of every labelled gauge there is
    children,  \* Prometheus: the labelled gauges of each family, oldest first
    scrape,    \* the server thread
    table,     \* OTLP: the dictionaries, as their entries, oldest first
    export     \* the export thread, in the callback of one dictionary

loopVars == <<current, shown, written>>
promVars == <<gauge, children>>
vars == <<loopVars, promVars, scrape, table, export>>

-----------------------------------------------------------------------------
(* What one packet makes the exporters write, one write after the other.   *)

(* labels(...).set(value), two steps when there is no such gauge yet       *)
Gauge(key, value) == <<[op |-> "set", key |-> key, value |-> value]>>

(* Mutation: only the state the task is in is written. *)
TaskStateWritesCurrent(t) == Gauge(<<"task_state", t.name, t.state>>, 1)

(* Mutation: the two label values are swapped. *)
TaskStateWritesSwapped(t) ==
    FlattenSeq([j \in DOMAIN StateNames |->
        Gauge(<<"task_state", StateNames[j], t.name>>,
              IF t.state = StateNames[j] THEN 1 ELSE 0)])

(* Mutation: all states are set to 0, and then the current one to 1. *)
TaskStateWritesResetFirst(t) ==
    FlattenSeq([j \in DOMAIN StateNames |-> Gauge(<<"task_state", t.name, StateNames[j]>>, 0)])
    \o Gauge(<<"task_state", t.name, t.state>>, 1)

TaskStateWrites(t) ==
    FlattenSeq([j \in DOMAIN StateNames |->
        Gauge(<<"task_state", t.name, StateNames[j]>>,
              IF t.state = StateNames[j] THEN 1 ELSE 0)])

TaskWrites(t) ==
    TaskStateWrites(t) \o FlattenSeq([j \in DOMAIN TaskGauges |->
        Gauge(<<TaskGauges[j], t.name>>, t.gauge[TaskGauges[j]])])

(* update_metrics *)
PrometheusWrites == [s \in DeviceStates |->
    FlattenSeq([j \in DOMAIN DeviceGauges |->
        Gauge(<<DeviceGauges[j]>>, s.device[DeviceGauges[j]])])
    \o FlattenSeq([i \in DOMAIN s.tasks |-> TaskWrites(s.tasks[i])])]

Entry(t, tab) == <<t.name, IF tab = "task_state" THEN t.state ELSE t.gauge[tab]>>

TableOrder == <<"task_state">> \o TaskGauges

(* export_metrics: each dictionary of the device is replaced by an empty   *)
(* one, and then filled task by task. (The five values of the device are   *)
(* single stores nobody iterates over.)                                    *)
OtlpWrites == [s \in DeviceStates |->
    [j \in DOMAIN TableOrder |-> [op |-> "clear", tab |-> TableOrder[j]]]
    \o FlattenSeq([i \in DOMAIN s.tasks |->
          [j \in DOMAIN TableOrder |->
              [op |-> "put", tab |-> TableOrder[j],
               entry |-> Entry(s.tasks[i], TableOrder[j])]]])]

(* handle_packets calls one exporter after the other. *)
Writes == [s \in DeviceStates |-> PrometheusWrites[s] \o OtlpWrites[s]]

(* No callback is iterating. In one, taken is the dictionary it began with, *)
(* and whole says that it was not being filled then; result is how the last *)
(* one ended.                                                               *)
NoExport == [active |-> FALSE, tab |-> "task_state", taken |-> <<>>, whole |-> FALSE,
             live |-> FALSE, items |-> <<>>, size |-> 0, out |-> <<>>, result |-> "none"]

Init ==
    /\ current = None
    /\ shown = None
    /\ written = 0
    /\ gauge = [k \in {} |-> 0]
    /\ children = [f \in Range(Families) |-> <<>>]
    /\ scrape = [active |-> FALSE, family |-> 1, keys |-> <<>>, base |-> None,
                 seen |-> {}, sample |-> <<>>]
    /\ table = [tab \in Tables |-> <<>>]
    /\ export = NoExport

-----------------------------------------------------------------------------
(* The loop of the bridge. *)

Pushed == current # None => written = Len(Writes[current])

(* The next write of the push. *)
Write == Writes[current][written + 1]

(* handle_packets has a new state and calls both exporters. *)
Push ==
    /\ Pushed
    /\ \E s \in DeviceStates :
          /\ current' = s
          /\ scrape' = [scrape EXCEPT !.seen = IF scrape.active THEN @ \cup {s} ELSE @]
    /\ written' = 0
    /\ UNCHANGED <<shown, promVars, table, export>>

Written ==
    /\ written' = written + 1
    /\ shown' = IF written' = Len(Writes[current]) THEN current ELSE shown
    /\ UNCHANGED current

(* labels makes the labelled gauge, with the value 0. *)
Labels ==
    /\ ~Pushed /\ Write.op = "set"
    /\ LET k == Write.key
       IN  /\ k \notin DOMAIN gauge
           /\ gauge' = [x \in DOMAIN gauge \cup {k} |-> IF x = k THEN 0 ELSE gauge[x]]
           /\ children' = [children EXCEPT ![k[1]] = Append(@, k)]
    /\ UNCHANGED <<loopVars, scrape, table, export>>

Set ==
    /\ ~Pushed /\ Write.op = "set" /\ Write.key \in DOMAIN gauge
    /\ gauge' = [gauge EXCEPT ![Write.key] = Write.value]
    /\ Written
    /\ UNCHANGED <<children, scrape, table, export>>

(* Mutation: the dictionary is emptied and not replaced. *)
ClearInPlace ==
    /\ ~Pushed /\ Write.op = "clear"
    /\ table' = [table EXCEPT ![Write.tab] = <<>>]
    /\ Written
    /\ UNCHANGED <<promVars, scrape, export>>

(* The callback that iterates over the old dictionary goes on with that.   *)
Clear ==
    /\ ~Pushed /\ Write.op = "clear"
    /\ LET tab == Write.tab
       IN  /\ table' = [table EXCEPT ![tab] = <<>>]
           /\ export' = IF export.live /\ export.tab = tab
                        THEN [export EXCEPT !.live = FALSE, !.items = table[tab]]
                        ELSE export
    /\ Written
    /\ UNCHANGED <<promVars, scrape>>

(* A name that is there already keeps its place. *)
PutEntry(d, e) ==
    IF \E i \in DOMAIN d : d[i][1] = e[1]
    THEN [i \in DOMAIN d |-> IF d[i][1] = e[1] THEN e ELSE d[i]]
    ELSE Append(d, e)

Put ==
    /\ ~Pushed /\ Write.op = "put"
    /\ table' = [table EXCEPT ![Write.tab] = PutEntry(@, Write.entry)]
    /\ Written
    /\ UNCHANGED <<promVars, scrape, export>>

Loop == Push \/ Labels \/ Set \/ Clear \/ Put

-----------------------------------------------------------------------------
(* The server thread: generate_latest goes through the families, copies    *)
(* the list of labelled gauges of each and reads one after the other.      *)

ScrapeBegin ==
    /\ ~scrape.active
    /\ scrape' = [active |-> TRUE, family |-> 1, keys |-> <<>>, base |-> shown,
                  seen |-> {shown, current} \ {None}, sample |-> <<>>]

ScrapeFamily ==
    /\ scrape.active /\ scrape.keys = <<>> /\ scrape.family <= Len(Families)
    /\ scrape' = [scrape EXCEPT !.keys = children[Families[scrape.family]],
                                !.family = @ + 1]

ScrapeGauge ==
    /\ scrape.active /\ scrape.keys # <<>>
    /\ scrape' = [scrape EXCEPT !.sample = <<Head(scrape.keys), gauge[Head(scrape.keys)]>>,
                                !.keys = Tail(@)]

ScrapeEnd ==
    /\ scrape.active /\ scrape.keys = <<>> /\ scrape.family > Len(Families)
    /\ scrape' = [scrape EXCEPT !.active = FALSE, !.family = 1, !.base = None,
                                !.seen = {}, !.sample = <<>>]

Scrape ==
    /\ ScrapeBegin \/ ScrapeFamily \/ ScrapeGauge \/ ScrapeEnd
    /\ UNCHANGED <<loopVars, promVars, table, export>>

-----------------------------------------------------------------------------
(* The export thread: a callback takes the dictionary of the device and    *)
(* yields its entries. Python ends an iteration over a dictionary whose    *)
(* size changed with an error, which OpenTelemetry logs: the rest is left  *)
(* out.                                                                    *)

(* The dictionary is being filled: entries are left to put, after the clear. *)
Filling(tab) ==
    LET left == {i \in (written + 1)..Len(Writes[current]) :
                    Writes[current][i].op \in {"clear", "put"} /\ Writes[current][i].tab = tab}
    IN  ~Pushed /\ left # {} /\ \A i \in left : Writes[current][i].op = "put"

ExportBegin ==
    /\ ~export.active
    /\ \E tab \in Tables :
          export' = [active |-> TRUE, tab |-> tab, taken |-> table[tab],
                     whole |-> ~Filling(tab), live |-> TRUE, items |-> <<>>,
                     size |-> Len(table[tab]), out |-> <<>>, result |-> "none"]

(* The dictionary the callback iterates over. *)
Iterated == IF export.live THEN table[export.tab] ELSE export.items

ExportEntry ==
    /\ export.active
    /\ Len(Iterated) = export.size /\ Len(export.out) < export.size
    /\ export' = [export EXCEPT !.out = Append(@, Iterated[Len(@) + 1])]

ExportEnd ==
    /\ export.active
    /\ \/ Len(Iterated) # export.size
       \/ Len(export.out) = export.size
    /\ export' = [NoExport EXCEPT
                    !.whole = export.whole,
                    !.result = IF Len(Iterated) # export.size THEN "error"
                               ELSE IF export.out = export.taken THEN "all" ELSE "some"]

Export ==
    /\ ExportBegin \/ ExportEntry \/ ExportEnd
    /\ UNCHANGED <<loopVars, promVars, scrape, table>>

Next == Loop \/ Scrape \/ Export

Spec == Init /\ [][Next]_vars

-----------------------------------------------------------------------------
Key ==
    {<<g>> : g \in Range(DeviceGauges)}
    \cup (Range(TaskGauges) \X Name)
    \cup ({"task_state"} \X Name \X Range(StateNames))

(* Every variable has its type; the gauges a family lists are those with a  *)
(* value, each once, and the dictionaries have no name twice                *)
(* (prometheus_exporter.py:32-84, otlp_exporter.py:76-85).                  *)
TypeOK ==
    /\ current \in DeviceStates \cup {None}
    /\ shown \in DeviceStates \cup {None}
    /\ \A k \in DOMAIN gauge : k \in Key /\ gauge[k] \in Value
    /\ \A f \in Range(Families) :
          /\ Range(children[f]) = {k \in DOMAIN gauge : k[1] = f}
          /\ Cardinality(Range(children[f])) = Len(children[f])
    /\ \A tab \in Tables : IsInjective([i \in DOMAIN table[tab] |-> table[tab][i][1]])
    /\ Len(export.out) <= export.size

(* The writes of a push that give a gauge the value it keeps. *)
Sets == [s \in DeviceStates |->
    LET w == PrometheusWrites[s]
    IN  {w[i] : i \in {i \in DOMAIN w : \A k \in (i + 1)..Len(w) : w[k].key # w[i].key}}]

(* At most one task of s writes the gauge. *)
OneWriter(s, key) ==
    Len(key) = 1
    \/ \A i, k \in DOMAIN s.tasks :
          s.tasks[i].name = key[2] /\ s.tasks[k].name = key[2] => i = k

(* What a scrape reads of a gauge that the state shown at its beginning     *)
(* has is the value some state gave it that was not older, whatever was     *)
(* being pushed meanwhile, unless two tasks take turns at a name            *)
(* (prometheus_exporter.py:98-139).                                         *)
ScrapeFresh ==
    /\ scrape.sample # <<>>
    /\ scrape.base # None
    /\ \A s \in scrape.seen : OneWriter(s, scrape.sample[1])
    =>
        LET key == scrape.sample[1]
        IN  (\E w \in Sets[scrape.base] : w.key = key) =>
                \E s \in scrape.seen : \E w \in Sets[s] :
                    w.key = key /\ w.value = scrape.sample[2]

(* The tasks whose names no later one has: with an equal name the later one *)
(* takes the gauges and the entries over.                                   *)
Named(s) ==
    {i \in DOMAIN s.tasks : \A k \in DOMAIN s.tasks : k > i => s.tasks[k].name # s.tasks[i].name}

(* Between two packets both exporters show the state of the last one, each  *)
(* name in one state only, and the same task where two have one name        *)
(* (main.py:91-93).                                                         *)
ExportersAgree ==
    Pushed /\ current # None =>
        /\ \A w \in Sets[current] : gauge[w.key] = w.value
        /\ \A i \in Named(current) :
              {k \in DOMAIN gauge :
                  k[1] = "task_state" /\ k[2] = current.tasks[i].name /\ gauge[k] = 1}
                = {<<"task_state", current.tasks[i].name, current.tasks[i].state>>}
        /\ \A tab \in Tables :
              Range(table[tab]) = {Entry(current.tasks[i], tab) : i \in Named(current)}

(* A callback that took a dictionary that was not being filled yields all   *)
(* of its entries, and none of a later packet, whatever is pushed while it  *)
(* iterates (otlp_exporter.py:166-174, 200-219).                            *)
TakenTableWhole ==
    export.whole => export.result \in {"none", "all"}

-----------------------------------------------------------------------------
(* prometheus_exporter.py:39: 1 if the task is currently in the labelled    *)
(* state, 0 otherwise.                                                      *)
OneOnlyInCurrentState ==
    Pushed /\ current # None =>
        \A k \in DOMAIN gauge :
            k[1] = "task_state" /\ gauge[k] = 1 =>
                \E i \in DOMAIN current.tasks :
                    current.tasks[i].name = k[2] /\ current.tasks[i].state = k[3]
=============================================================================
