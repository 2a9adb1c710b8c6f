# A TLA+ verification of the PANDAS GossipSub prototype

`src/prototype` runs experiments with libp2p GossipSub: a node program in Go,
a launcher script that starts the nodes of one host, and Python programs that
turn the traces of a run into mesh snapshots and graph metrics. This directory
holds models of that code, the TLC runs that check them and the TLAPS proofs
of what matters most for every configuration.

Contents: [system](#the-system), [hard behaviours](#what-is-hard-about-it),
[modules](#the-modules), [runs](#the-runs), [findings](#where-code-and-words-differ),
[proofs](#the-proofs), [not modelled](#what-is-not-modelled), [plan](#plan).

## The system

| Part | Source | State | Operations |
| --- | --- | --- | --- |
| Node process | `main.go` `main`, `runGossip`; `header.go` `ReadLoop`, `Publish` | the goroutines, `publishID`, ticker and end timer, the channel `Messages` (128), the libp2p subscription (32) | start, connect, publish, receive or ignore, end, close |
| Static dialling | `main.go` `connectStaticPeers` | `pending`, `deadline` | rounds of dials with a pause of 1 s |
| Topology file | `main.go` `readStaticTopology` | peers, roles, own role | read once at the start |
| Degraded role | `main.go` `percentHit`, `normalizeRole`, `validPercent` | none | choose the publishes to mark and the messages to ignore |
| Validation and score | `header.go` `validateGossipMessage`, `gossipSubOptions` | score parameters | accept or reject a message; score a peer |
| Score inspector | `header.go` `newScoreInspector` | a CSV writer behind a mutex | one row per peer and interval |
| Launcher | `Launching_scripts/run.sh` | the job table of bash, `started`, `fail` | start one node per matching row, sleep, wait, report |
| Topology pipeline | `analysis/topology_pipeline.py` | the mesh while events are replayed; CSV files | snapshots, edge lifetimes, churn, graph metrics, convergence |
| Extraction, plots | `analysis/extract_gossipsub_topology.py`, `plot_topology_metrics.py` | CSV files | older extraction; drawing |
| Key generator, installation | `keygen/key_generator.go`, `server_install.sh` | none | straight-line |

How they interact: `run.sh` starts one process per row of `nodes.csv` that
names its host. A process reads the same file for its peers, dials them one
after the other and then enters `runGossip`, whose `select` serves the end
timer, the publish ticker and `Messages`. A second goroutine, `ReadLoop`, runs
from before the dialling on and moves messages from the subscription, which
the libp2p router fills and overflows, into `Messages`. Between processes only
messages pass: each is validated at every hop, forwarded if accepted, and a
rejected one counts in the peer score against whoever delivered it. libp2p
writes the trace files that the pipeline reads after the run.

What makes each part correct:

* node process: nothing is lost, duplicated or reordered after the
  subscription took it; publishes keep their pace; the process ends;
* dialling: unreachable peers cost the others no dial, nobody is given up on
  without a dial begun near the end of the window, and the phase ends in a
  bounded time;
* degraded role: the percentages are what the flags say;
* validation and score: an invalid message stays at the first hop, and never
  counts against an honest node; valid ones reach every honest application
  once;
* launcher: its exit status and its last line are true;
* pipeline: snapshot `k` is the mesh at the end of bucket `k`; lifetimes, churn
  and snapshots agree with each other; the metrics are those of the graph.

## What is hard about it

`PROJECT.json` lists each hazard at its line. The groups are

* a reader that runs while nobody empties its channel: the whole connection
  phase goes by before `runGossip` first receives, so that every buffer may be
  full and `ReadLoop` blocked when it starts, or when the process ends;
* timers: a ticker armed before a sleep, a `select` with several ready cases,
  a retry window tested only between rounds of slow dials;
* several copies of a message racing through validators of several nodes, and
  peers held liable for what they forward;
* jobs that end while, or before, a shell script collects them;
* one selection function used for two purposes that the words treat as
  independent;
* in the pipeline: events of several clocks, events that never come, outputs
  of an earlier run beside new ones.

## The modules

| Module | What it is |
| --- | --- |
| `DegradedRole` | roles, `validPercent`, `percentHit`; shared by `GossipNode`, `GossipNetwork`, `DegradedTally` |
| `GossipNode` | one node process, `main` and `ReadLoop` as two interleaved actors |
| `MessageStream` | abstract: what the receive path promises, an ordered stream with losses and without duplicates |
| `StaticDial` | `connectStaticPeers`, the phase `"connecting"` of `GossipNode` in detail |
| `GossipNetwork` | all nodes: role from file and flag, publish, validate, forward, report, hold liable, prune, lose a connection |
| `DegradedTally` | how many messages the percentages come to |
| `RunScript` | `run.sh` from the start of `sar` to its exit status |
| `TraceSnapshots` | from trace files to mesh snapshots and edge lifetimes, by two programs |
| `MeshSeries` | extends it: the files between the two halves of the pipeline, churn and control series |
| `GraphSearch` | connected components and shortest paths of every snapshot, step by step |
| `GraphMetrics` | extends it: the rows computed from them, churn rates, the stability index |
| `GossipNodeProofs`, `StaticDialProofs`, `GossipNetworkProofs`, `DegradedTallyProofs`, `RunScriptProofs`, `TraceSnapshotsProofs`, `MeshSeriesProofs` | the proofs about each |
| `GraphSearchProofs` | the proofs about `GraphSearch` and `GraphMetrics` |
| `MC...` | the same modules with values for TLC |

**`GossipNode`.** `main` is the program counter of the main goroutine:
`starting` (host, topology, pubsub), `connecting`, `settling` (the 2 s sleep),
`select`, and `closing`, `cancelled`, `exited` for the deferred calls, in
their order. `sub`, `held` and `Messages` are the three places a received
message can be in: the subscription's buffer, the local variable of
`ReadLoop`, the channel. `ticker` is the one-place channel of the ticker,
`nextTick` its schedule. `published` and the counters are history. Each case
of the `select` is an action, so the random choice among ready cases is
nondeterminism. Messages of other nodes, the echo of the node's own publishes
and the clock are external actions. `json.Unmarshal` never fails in
`ReadLoop`, because the validator has decoded the same bytes before. The cases
of a closed `Messages` and of a cancelled context cannot occur while
`runGossip` runs: only the deferred `cancel()` of `main` causes them.

**`StaticDial`.** One action per step of the loop: `OpenWindow`, `StartRound`,
`Dial` (any pending peer of the round next, as in a Go map; any duration up to
the 2 s limit; success or failure), `EndRound` with its pause, `Return`.
`rounds`, `attempts` and `lastTry` (when the last dial of a peer began) are
history.

**`GossipNetwork`.** `RoleColumn` is the last column of `nodes.csv`,
`RoleFlag` what `-role` says. A node behaves by `ConfigRole`, the flag as it is
or else its own row; the others score it by `PeerRole`, the row after
`normalizeRole`. Both may hold any word, so they may disagree: by an override
by hand, or by a row that ends with CR LF, whose CR the shell keeps in `-role`
and the csv reader of the nodes drops. The peers that `readStaticTopology` returns are the `Links`.
`Publish` and `Accept`/`Reject` contain
`validateGossipMessage`; `Application` is the message case of `runGossip`.
The router is external: `Arrive` recognises duplicates, `Forwards` leaves out
the sender and the author, a rejected message is held against every peer that
delivered it, `Prune` and `Graylist` may act on the least score those copies
allow (the positive terms only delay them), and `Break` ends a connection for
good, for `connectStaticPeers` returns once it has dialled everybody. Mesh
maintenance for other reasons (degree bounds, opportunistic grafts) is left out.

**`DegradedTally`.** One publisher and one neighbour without losses, for all
percentages: counting, which `GossipNetwork` is too large for.

**`RunScript`.** The launch loop row by row, the sleep, the job list, the
waits. The job list is what bash (5.2) prints in a command substitution: in
`$(jobs -p)` the running jobs and, of the finished ones, at most the one that
was started last. A plain `jobs -p` would also list jobs that have exited since
the last report, with any status; the subshell of the substitution has
forgotten them. When the job started last was killed by a signal, it is dropped
as well, unless bash has not noticed yet, so `ListJobs` leaves that open.

**`TraceSnapshots`.** First the nodes write: `Record` appends an event to the
file of its node, whose clock does not go back; the clocks of two nodes have
nothing to do with each other. Then the programs run one after the other on
the finished files: `reconstruct_snapshots` (`ReplayEvent`, `CloseBucket`),
`edge_lifetimes` (`TimeEvent`), `write_edge_lifetimes_from_snapshots`
(`MeasureSnapshot`) and the loop of `extract_gossipsub_topology.py`
(`ExtractLine`). Each step takes the first event, in the order that the code
sorts by, which is not done yet. The programs only read the files, so the
extraction may come last without loss. There is one topic, and time counts
milliseconds. Events that change no mesh (`publish`, `heartbeat`, ...) still
fix the first and the last bucket. A line that is not JSON ends both programs.

**`MeshSeries`.** What `traces_to_snapshots_command` writes and
`analyze_snapshots_file` reads back, one after the other, as operators on the
state of `TraceSnapshots`: `SnapshotRows` are the rows of `snapshots.csv`, with
a marker per snapshot, under aliases taken from the names of the trace files;
`read_snapshots` groups them again; `churn_row` and `event_count` are the
series made of them and of `trace_events.csv`. A CSV file is the set of its
rows.

**`GraphSearch`.** `connected_components` (`StartComponent`, `Visit`,
`EndComponent`, `StopComponents`), then `all_pairs_distances` (`StartSource`,
`Reach`, `Advance`, `EndSource`), then the row (`CloseRow`), for each snapshot
and at last for the union of all, as in `summary_metrics`. `adjacency` is a
dictionary of sets, and sets have no order: which neighbour is next is open. So
is the node popped from the stack, since nothing depends on it. The frontier
of the breadth-first search is a list that grows while `at` moves over it. The
extraction has the same depth-first search.

**`GraphMetrics`.** One operator per function of the two programs: degrees,
`quantile`, `distribution_stats` without the standard deviation, densities,
reciprocity, clustering, mean and longest distance, `topology_stats` of the
extraction, `churn_rate`, `first_stable_index`. Ratios are exact fractions, and
percentiles are multiplied by 100. `sorted` gives the sorted list by ranks: the
i-th value is the least one that at least i values do not exceed. A trace has
no edge from a peer to itself, because gossipsub never grafts its own node;
`Loopless` says so of the inputs, and TLC evaluates it on those of the run.

## The runs

| Run | Question | Bounds |
| --- | --- | --- |
| `gossip_node` | Does one node keep its messages in order and in number, its pace, and end? | buffers of 1; 3 messages of others; 3 s; a degraded node with 50/50 |
| `publish_spacing` | Are publishes an interval apart? (no) | interval 3 s |
| `static_dial` | Is the dialling phase fair to all peers and bounded? | 3 peers, window 8 s, dials up to 2 s |
| `run_script` | What does the exit status of the launcher say? | all files of 3 rows, with and without `sar` |
| `run_script_lost_failure` | Does status 0 mean that no node failed? (no) | the same |
| `gossip_network` | Where do invalid messages go, and who pays for them? | 2 honest nodes and 1 degraded, all linked; 3 messages; 1 loss |
| `gossip_relay` | Does a degraded node cut off nodes that have no other way? | a triangle, the degraded node ignores everything, the connection of the other two may break |
| `degraded_tally` | Are the percentages met? | all percentages, 200 publishes |
| `degraded_share` | Also between two degraded nodes? (no) | 50 and 50, 100 publishes |
| `trace_snapshots` | Do snapshots, lifetimes, the older extraction, files and series tell what the traces say? | 2 files, 4 events, 3 buckets of 2 ms |
| `exact_heartbeats` | Are snapshots labelled exact those of the heartbeats? (no) | 2 files, 2 events |
| `graph_metrics` | Do the searches find components and shortest paths, do all rows agree, do the indicators mean what they say? | all 256 lists of 4 snapshots of 2 nodes; 9 lists of 1 to 5 larger graphs; `MaxPathNodes` 5 for 500 |

Why these bounds are enough: in `gossip_node` a buffer of one message is full
and empty within three messages, so that overflow, a blocked `ReadLoop` and a
resumed one all occur, and three seconds hold the settle time, a waiting tick
and the end timer. Every property of it except the liveness ones is also proved
for all bounds. In `static_dial` a round of slow dials and its pause end one
second before the window does, so that a second round overruns it by as much as
it may, `TriedToTheEnd` asks for a last dial later than the start, and many
rounds of fast dials fit. Three rows give the
launcher every order of other hosts, missing keys and its own rows. In
`gossip_network` the triangle brings every message back on a second way while
the validator of the first copy may still run; `InvalidPenalty` is set so that
one invalid message graylists its author, which makes every branch of the score
reachable; 30 percent marks the first publish of the degraded node and not the
second. In `trace_snapshots` four events in three buckets give an edge that is
grafted, pruned and grafted again, within a bucket and across two, empty
buckets, events on a boundary, equal time stamps, a prune without a graft and a
second graft of an open edge, with a second file to merge. In `graph_metrics`
the two-node lists hold every short history of a mesh for churn and
convergence: changes that stop, that come back, that never stop. The larger
graphs are there for the searches and the rows: a ring with a chord (two ways
of different length), two components, a star around its last node, a clique,
one-way and mutual edges, and a mesh of six nodes, too many for paths; the
searches, the rows and the indicators are proved for all graphs. In
`gossip_network` a row with a word that is no role belongs to a node started
without `-role`; in `gossip_relay` all nodes are started by hand, one of the
honest ones with a degraded row that its flag overrides. There the connection
may break before, under, and after every copy. With scoring on such a node
would be pruned for its row, so `HonestMessagesSpread` is checked in
`gossip_network` with roles that agree. 200 publishes are two periods of
`percentHit`.

**Fairness.** `GossipNode`: weak fairness of the steps of `main` that never
block and of the clock, which the Go scheduler gives; of `EndTimer`, because a
`select` picks at random among ready cases and a fired timer stays ready; of
`EnterRunGossip`, which is `Returns` of `StaticDial`. Nothing is assumed of
`ReadLoop`: the node ends even if it is blocked for ever.
None is assumed of the network. `StaticDial`: the dial ends
by its context's timeout. `RunScript`: the shell runs, and every process ends,
which is `ProcessEnds`. `GossipNetwork`: some copy under way arrives, some
running validator returns; publishing and pruning are not forced.

**`CHECK_DEADLOCK` stays on**: final states are explicit stuttering actions
(`Terminated`, `Returned`, `AllOver`, `Quiet`, `Done`, `Ended`, and the last
disjunct of `Next` in `GraphSearch`).

## Where code and words differ

* `publish_spacing`: `-gossipInterval` is "seconds between publishes", but the
  ticker is armed before the 2 s sleep that precedes the first publish. With
  the default of 5 s the first two publishes are 3 s apart. What does hold,
  and is proved, is `NotBeforeItsTick`.
* `run_script_lost_failure`: "All jobs finished successfully" is printed, with
  status 0, although a node failed early (a wrong key, a port in use, a
  signal): after the sleep `$(jobs -p)` no longer lists it, unless it was
  started last and not killed by a signal. What holds is that jobs which outlive the sleep cannot fail unnoticed.
* `degraded_share`: "percentage of received app messages ignored by degraded
  nodes". Invalid publishes and ignored messages are the same sequence
  numbers. In the documented run with 50 and 50 a degraded node ignores none
  of the messages it receives from another degraded node, and half of those
  of an honest one.
* `exact_heartbeats`: "Real traces do not always expose exact heartbeat
  events. When they do not, this tool uses fixed time buckets". When they do,
  it uses fixed time buckets as well, counted from the first event of any
  kind, and only the label changes to `exact_heartbeat`.

## The proofs

All are checked by `tlapm`. They assume what the `ASSUME`s of the modules
state: what `parseFlags` accepts, finite sets of peers, symmetric links, and a
penalty that is not positive, and `EvenlySpread` (below). `RowsAgree` alone has
a hypothesis besides, `Loopless`. Every invariant and every safety property
that a passing run checks is also a theorem.

* **Node.** `TypeCorrect`; `NoMessageUnaccounted`: the balance between
  offered, lost, skipped, held, received and ignored is itself inductive,
  together with the fact that only messages of others get past `ReadLoop`.
  `ReceivePathOrdered`: each of the three queues is increasing, and each lies
  before the one that feeds it; two lemmas about appending and taking the head
  carry the induction. From it `NodeImplementsStream`: every step of the node
  is a step or a stutter of `MessageStream`, a message taken from `Messages`
  being later than the last and not later than what was offered.
  `NoEarlyPublish`: publishes alone are not inductive; `TickBudget` adds the
  waiting tick and the time of the next one, since each publish is paid for by
  an interval that has passed.
* **Dialling.** `OverrunIsBounded` needs `OverrunBudget`: in a round the time
  now, plus one full dial for every peer still to dial, never exceeds the
  bound. `RoundsDialAll` and `ConnectedNotRedialled` (an action property,
  proved only) follow by simpler inductions. `PeersTriedLate` needs `TryAges`:
  the time since the last dial of a pending peer is at most one full dial for
  every peer of the round that has had its turn, and between two rounds at most
  a whole round and the pause.
* **Network.** `InvalidContained` and `HonestSafe` share an invariant: an
  invalid copy comes from its author, no copy goes from a node to itself, and
  only invalid messages are rejected. Whoever is held liable is then the
  author of a marked message, so degraded by its own `ConfigRole`; an honest
  node's score is zero or more, unless its row in the file is degraded. No
  relation between row and flag is assumed: what other nodes do never lowers
  the score of an honest one, but a row that contradicts the flag does.
  `ReportsAtMostOnce` needs that a message is validated from one copy
  only, that no copy reaches its author, and that what is being validated has
  not been decided.
* **Percentages.** `InvalidExact`, `InvalidEven` and `IgnoredEven`: the
  counters are the numbers of hits below `publishID`, by a simple induction. In
  100 q numbers, i -> (i div 100, 37 i mod 100) is one-to-one, since 37 and 73
  are inverse modulo 100, so that exactly as many are hit as the percentage
  says; and what follows a whole hundred repeats the first. That the hits
  within one hundred are spread evenly is `EvenlySpread`, a finite statement
  about numbers below 100 without any constant, which `DegradedTally` assumes
  and TLC evaluates.
* **Launcher.** `NothingLeftRunning`, `FailuresHaveCauses`,
  `LateFailuresCount` rest on two invariants: the launch loop has started the
  rows it has read, and the collecting loop still lists every running job.
  `OrphansExplained` uses them for each way to exit.
* **Traces.** `ReplayFollowsTraces`: the files are sorted by time, each within
  itself; so an event that is next in the merged order is later, in its own
  file, than all events replayed before, and the replayed ones are an initial
  part of every file. Under that condition adding one event changes the mesh
  that the files tell (`PresentEdges`) exactly as the code changes its set,
  since only the owner of an edge writes about it. `BucketMonotone`, about
  integer division, relates time stamps to buckets: when a bucket closes, all
  events of lower buckets have been replayed. `ProgramsAgree` uses the same
  lemma with the order of the files alone, where no time stamp is needed.
  `LifetimesFollowSnapshots` adds the third replay: what it has looked at is an
  initial part of the sorted events, so the edges with a start are those that
  the files tell (the same lemma again), and no time in its tables is later
  than an event to come, so that a new lifetime lies after the old ones of its
  edge. `SnapshotLifetimesClose` needs what the two tables mean. `TracedInv`: a
  traced lifetime is a graft and the prune that is the owner's next word on the
  edge, and every graft replayed is still open, or the first prune after it has
  closed a lifetime. `MeasureInv`: a lifetime between snapshots is a run of
  snapshots that have the edge, up to the first that has it no more. A run
  begins with a graft in its first bucket, it ends in the bucket of a prune
  that closes a traced lifetime, and a traced lifetime that reaches into
  another bucket is in the snapshots between its ends, so in a run.
* **Files and series.** `FilesFaithful`: no two nodes have one alias, so the
  rows of a snapshot name as many edges as it has; grouping the rows by their
  number, in sorted order, gives back every snapshot, those without an edge by
  their marker. `SeriesFit`: an edge that is new in a snapshot has a `GRAFT` in
  the bucket of that snapshot, one that is gone a `PRUNE`; distinct edges have
  distinct events. That the counts of all rows add up to the number of events
  uses that a sum over 1 to n is the only solution of its recursive equation.
* **Searches.** `SearchFindsComponents`: all edges of the visited part of a
  component end in what has been found, and no set that edges do not leave can
  hold the root without all that has been found. So a component with an empty
  stack is closed and cannot be split. `SearchFindsDistances`: the list is
  sorted by distance and, from the position of the loop on, spans at most two of
  them; what the loop has passed has all its neighbours in the list, no further
  than one step; every entry but the first has a neighbour one step closer.
  This is a certificate of shortest paths that names no path: along any path
  distances grow by at most one per edge, and some path has length equal to the
  distance. `TypeCorrect` holds that no node is twice in the list, so that the
  loop over it ends.
* **Indicators.** `ConvergenceMeans`: the index reported is the least after
  which all values are within epsilon of each other, and the same holds of it
  in every shorter series that is long enough. Values that do not change are
  within any epsilon; for the number of components this needs that a graph has
  only one division into components, in whatever order they were found.
* **Rows.** `RowsAgree` takes `SearchFindsComponents`, `SearchFindsDistances`
  and the fact that all rows are there at the end; the rest is counting. A sum
  over a finite set is the only solution of its recursive equation, hence a sum
  of sizes of disjoint parts is the size of the whole (degrees, degree
  distribution, pairs within components). Turning the mutual edges that point
  up around gives those that point down, and the undirected view drops as many.
  A triangle is counted at each of its corners; split by whether the corner is
  its least, middle or greatest node, the counts are equal. A percentile lies
  between two neighbours of the sorted list and grows with its position. A
  largest set that holds one root per component and no more other nodes than
  edges inside it is the set of all nodes, so that the edges suffice. The lemma
  `Shortest` says that whatever starts within k and grows by at most one per
  edge is nowhere more than k beyond the distance; it makes distances
  symmetric, those of the union no longer than those of a snapshot, and what is
  reached from a node its component. Every number below a distance is the
  distance of some node, so that the diameter fits into the component.

Only model-checked: the liveness properties (`ProcessEnds`, `Returns`,
`ScriptEnds`, `HonestMessagesSpread`, `InvalidPublishCounts`). They need
fairness and `ENABLED`, which `tlapm` does not reason about.

## What is not modelled

Payloads and JSON; the wording of logs; libp2p itself beyond what the node
code relies on; the argument checks at the head of `run.sh`; score decay and
the positive score terms; `newScoreInspector`, the key generator, the
installation script and the plots, which keep no state anybody else reads.
Of the
analysis pipeline: the counters of RPCs, the rows for a missing
`trace_events.csv`, standard deviations, the rounding to six digits, and the
peer and RPC graphs of the extraction. Rows of `nodes.csv` that
cannot be parsed end a node before it shares anything. The pipeline skips a
`GRAFT` or `PRUNE` event without a remote peer; libp2p writes none.

A peer
that leaves without a `PRUNE` event stays in the mesh of both programs: they
read no other event for it, as their metadata says ("reconstructed from
observed graft/prune events"), and the properties ask no more.

Two remarks on the stability index, which its file calls heuristic.
`stability_rule` speaks of a 3-sample moving window; the code compares all
values up to the end, which is stronger. `ConvergenceMeaningful` shows that what
is reported satisfies the words, that later values cannot undo it within the
series, and that a mesh that stops is reported; it does not show that the words
hold of no earlier heartbeat, and they may: in the list `Grow` of
`MCGraphMetrics` the mean degree rises by a fifth per heartbeat and stays within
its epsilon in every window of three from the first heartbeat on, and the code
reports the third. And it looks at the spread, not the level: churn that
stays at 100 percent counts as stable.

## Plan

Done, in the order of importance: `GossipNode`, `MessageStream`, `StaticDial`,
`RunScript`, `GossipNetwork`, `DegradedTally`, `TraceSnapshots`; then
`MeshSeries`, `GraphSearch`, `GraphMetrics`, roles and broken connections in
`GossipNetwork`; and the proofs above, of every safety property. Left:

1. A composition of `StaticDial` for several nodes that dial each other and
   start to publish at different times, refined into the links of
   `GossipNetwork`.
2. The peer and RPC graphs of the extraction.

Of what is modelled, no safety property is left to prove.
