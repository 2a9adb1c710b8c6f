---------------------------- MODULE GraphMetrics ----------------------------
(***************************************************************************)
(* The numbers computed from the snapshots and from the results of the two *)
(* searches: the rows of topology_pipeline.py (degrees, global graph       *)
(* metrics, churn, convergence) and the degree tables and graph statistics *)
(* of extract_gossipsub_topology.py.  A ratio is a pair <<numerator,       *)
(* denominator>>, exact where the program rounds; the layout of the files  *)
(* is left out.                                                            *)
(***************************************************************************)
EXTENDS GraphSearch, FiniteSetsExt

None == 0   \* Python's None as the answer of first_stable_index

(* Degrees.                                                                *)
out_degree(node, edges) == Cardinality({e \in edges : e[1] = node})

DegreeRow(node, edges) ==
  LET in_degree == Cardinality({e \in edges : e[2] = node})
  IN  [out_degree |-> out_degree(node, edges), in_degree |-> in_degree,
       total_degree |-> out_degree(node, edges) + in_degree]

(* The extraction counts the degrees of an undirected graph over the edges.*)
undirected_degree(node, undirected_edges) ==
  Cardinality({e \in undirected_edges : e[1] = node})
    + Cardinality({e \in undirected_edges : e[2] = node})

degree_distribution(edges) ==
  LET counts(d) == Cardinality({n \in nodes : out_degree(n, edges) = d})
  IN  {<<d, counts(d)>> : d \in {out_degree(n, edges) : n \in nodes}}

(* sorted(): the i-th is the least value that i or more do not exceed.  A  *)
(* list of values is a function; their places in it do not matter.         *)
sorted(values) ==
  LET range     == {values[j] : j \in DOMAIN values}
      atMost(v) == Cardinality({j \in DOMAIN values : values[j] <= v})
  IN  [i \in 1 .. Cardinality(DOMAIN values) |->
         Min({v \in range : atMost(v) >= i})]

(* The q-th percentile, times 100: between two neighbours it is linear.    *)
quantile(values, q) ==
  LET ordered  == sorted(values)
      position == (Cardinality(DOMAIN values) - 1) * q
      lower    == position \div 100
  IN  IF position % 100 = 0 THEN 100 * ordered[lower + 1]
      ELSE ordered[lower + 1] * (100 * (lower + 1) - position)
             + ordered[lower + 2] * (position - 100 * lower)

(* min, q10, q25, median, q75, q90, max, times 100.                        *)
distribution_stats(values) ==
  LET range == {values[i] : i \in DOMAIN values}
  IN  IF range = {} THEN <<0, 0, 0, 0, 0, 0, 0>>
      ELSE <<100 * Min(range), quantile(values, 10), quantile(values, 25),
             quantile(values, 50), quantile(values, 75), quantile(values, 90),
             100 * Max(range)>>

out_degrees(edges) == [n \in nodes |-> out_degree(n, edges)]

-----------------------------------------------------------------------------
(* The row of one snapshot.                                                *)
density(node_count, edge_count, directed) ==
  IF node_count <= 1 THEN <<0, 1>>
  ELSE <<IF directed THEN edge_count ELSE 2 * edge_count,
         node_count * (node_count - 1)>>

reciprocal(edges) == {e \in edges : <<e[2], e[1]>> \in edges}

reciprocal_edge_ratio(edges) ==
  IF edges = {} THEN <<0, 1>>
  ELSE <<Cardinality(reciprocal(edges)), Cardinality(edges)>>

(* The clustering coefficient of one node: edges between its neighbours.   *)
clustering(node, undirected_edges) ==
  LET neighbors == {m \in nodes : Adjacent(node, m, undirected_edges)}
      degree    == Cardinality(neighbors)
      links     == {e \in undirected_edges : {e[1], e[2]} \subseteq neighbors}
  IN  IF degree < 2 THEN <<0, 1>>
      ELSE <<Cardinality(links), (degree * (degree - 1)) \div 2>>

largest(components_) == Max({0} \cup {Cardinality(c) : c \in components_})

avg_shortest_path(distances_) ==
  <<MapThenSumSet(LAMBDA d : d[3], distances_), Cardinality(distances_)>>

diameter(distances_) == Max({0} \cup {d[3] : d \in distances_})

(* A row of global_graph_timeseries.csv; of the union, for summary.json.   *)
GlobalRow(k) ==
  LET edges            == Graph(k)
      undirected_edges == directed_to_undirected(edges)
      r                == results[k]
      n                == Cardinality(nodes)
  IN  [directed_edge_count    |-> Cardinality(edges),
       undirected_edge_count  |-> Cardinality(undirected_edges),
       density_directed       |-> density(n, Cardinality(edges), TRUE),
       density_undirected     |->
         density(n, Cardinality(undirected_edges), FALSE),
       component_count        |-> Cardinality(r.components),
       largest_component_size |-> largest(r.components),
       reciprocal_edge_ratio  |-> reciprocal_edge_ratio(edges),
       avg_shortest_path      |-> avg_shortest_path(r.distances),
       diameter               |-> diameter(r.distances)]

(* summary.json compares the last snapshot with the union of all.          *)
summary_metrics == [final |-> GlobalRow(Len(snapshots)),
                    union |-> GlobalRow(Len(snapshots) + 1)]

(* graph_stats.csv of the extraction; component_count as above.            *)
topology_stats(edges, directed) ==
  LET degree(p) == IF directed THEN DegreeRow(p, edges).total_degree
                   ELSE undirected_degree(p, edges)
      degree_values == {degree(p) : p \in nodes}
  IN  [density    |-> density(Cardinality(nodes), Cardinality(edges), directed),
       min_degree |-> IF degree_values = {} THEN 0 ELSE Min(degree_values),
       avg_degree |-> <<MapThenSumSet(degree, nodes), Max({1, Cardinality(nodes)})>>,
       max_degree |-> IF degree_values = {} THEN 0 ELSE Max(degree_values)]

-----------------------------------------------------------------------------
(* Churn and convergence.                                                  *)
EdgesAt(k) == IF k = 0 THEN {} ELSE snapshots[k]

churn_rate(k) ==
  LET added   == EdgesAt(k) \ EdgesAt(k - 1)
      removed == EdgesAt(k - 1) \ EdgesAt(k)
      union   == EdgesAt(k) \cup EdgesAt(k - 1)
  IN  IF union = {} THEN <<0, 1>>
      ELSE <<Cardinality(added) + Cardinality(removed), Cardinality(union)>>

(* a - b <= epsilon, for ratios.                                           *)
Within(a, b, epsilon) ==
  (a[1] * b[2] - b[1] * a[2]) * epsilon[2] <= epsilon[1] * a[2] * b[2]

Spread(tail, epsilon) ==
  \A i, j \in DOMAIN tail : Within(tail[i], tail[j], epsilon)

Window == 3

(* Mutant: only the window is compared, not everything after it.           *)
first_stable_indexWindow(values, epsilon) ==
  LET stable == {i \in 1 .. Len(values) - Window + 1 :
                   Spread(SubSeq(values, i, i + Window - 1), epsilon)}
  IN  IF stable = {} THEN None ELSE Min(stable)

first_stable_index(values, epsilon) ==
  LET stable == {i \in 1 .. Len(values) - Window + 1 :
                   Spread(SubSeq(values, i, Len(values)), epsilon)}
  IN  IF stable = {} THEN None ELSE Min(stable)

(* The three series of write_convergence_metrics, with their epsilons.     *)
churn_rates     == [k \in DOMAIN snapshots |-> churn_rate(k)]
degree_means    == [k \in DOMAIN snapshots |->
                      <<Cardinality(snapshots[k]), Max({1, Cardinality(nodes)})>>]
component_counts == [k \in DOMAIN snapshots |->
                      <<Cardinality(results[k].components), 1>>]

Indicators == {<<churn_rates, <<1, 20>>>>, <<degree_means, <<1, 2>>>>,
               <<component_counts, <<0, 1>>>>}

-----------------------------------------------------------------------------
(* Properties.                                                             *)

(* No node is in its own mesh: gossipsub grafts other peers only.          *)
Loopless ==
  \A input \in Inputs : \A k \in DOMAIN input.snapshots :
    \A e \in input.snapshots[k] : e[1] # e[2]

Total(op(_)) == MapThenSumSet(op, nodes)

(* The rows of different files agree although each counts in its own way:  *)
(* the degrees of both programs add up to the edges, the undirected view   *)
(* loses exactly one of each mutual pair, the clusterings count every      *)
(* triangle three times, and percentiles are in order                      *)
(* (topology_pipeline.py:340-354, 671-674, 744-796, 823-853).              *)
DegreesConsistent(edges) ==
  LET undirected_edges == directed_to_undirected(edges)
      directed_count   == Cardinality(edges)
      stats            == distribution_stats(out_degrees(edges))
  IN  /\ Total(LAMBDA n : DegreeRow(n, edges).out_degree) = directed_count
      /\ Total(LAMBDA n : DegreeRow(n, edges).in_degree) = directed_count
      /\ topology_stats(edges, TRUE).avg_degree[1] = 2 * directed_count
      /\ \A n \in nodes :
           undirected_degree(n, undirected_edges) =
             Cardinality({m \in nodes : <<n, m>> \in edges \/ <<m, n>> \in edges})
      /\ topology_stats(undirected_edges, FALSE).avg_degree[1]
           + Cardinality(reciprocal(edges)) = 2 * directed_count
      /\ Total(LAMBDA n : clustering(n, undirected_edges)[1]) % 3 = 0
      /\ \A i \in 1 .. Len(stats) - 1 : stats[i] <= stats[i + 1]
      /\ MapThenSumSet(LAMBDA d : d[1] * d[2], degree_distribution(edges))
           = directed_count

(* The union has the components of the last snapshot, joined or not.       *)
SummaryConsistent ==
  LET final == summary_metrics.final
      union == summary_metrics.union
  IN  /\ final.component_count >= union.component_count
      /\ final.largest_component_size <= union.largest_component_size
      /\ final.undirected_edge_count <= union.undirected_edge_count

(* The two searches, and the edge counts, agree in every row: as many      *)
(* distances as ordered pairs inside a component, a diameter that fits     *)
(* into the largest one, and no fewer edges than it takes to connect them. *)
(* The union, searched last, connects what any snapshot does, and no path  *)
(* in it is longer (topology_pipeline.py:465-485, 677-699).                *)
RowsConsistent ==
  pc = "done" => SummaryConsistent /\ \A k \in DOMAIN results :
    LET row   == GlobalRow(k)
        union == results[Len(results)]
        n     == Cardinality(nodes)
    IN  /\ DegreesConsistent(Graph(k))
        /\ row.undirected_edge_count >= n - row.component_count
        /\ row.density_directed[1] <= row.density_undirected[1]
        /\ row.density_undirected[1] <= row.density_undirected[2]
        /\ \A c \in results[k].components :
             \E d \in union.components : c \subseteq d
        /\ n <= MaxPathNodes =>
             /\ row.avg_shortest_path[2] =
                  MapThenSumSet(LAMBDA c : Cardinality(c) * (Cardinality(c) - 1),
                                results[k].components)
             /\ \A d \in results[k].distances :
                  <<d[2], d[1], d[3]>> \in results[k].distances
             /\ row.diameter < Max({1, row.largest_component_size})
             /\ \A d \in results[k].distances : \E u \in union.distances :
                  u[1] = d[1] /\ u[2] = d[2] /\ u[3] <= d[3]

(* A reported heartbeat means what stability_rule says, "all following     *)
(* values remain within epsilon for a 3-sample moving window"; a mesh that *)
(* no longer changes is reported, by the heartbeat of its last change (and *)
(* the next, for churn); and more heartbeats never move an indicator to an *)
(* earlier one (topology_pipeline.py:620-640, 661-668).                    *)
ConvergenceMeaningful ==
  pc = "done" => \A indicator \in Indicators :
    LET values    == indicator[1]
        epsilon   == indicator[2]
        heartbeat == first_stable_index(values, epsilon)
    IN  /\ heartbeat # None => \A i \in heartbeat .. Len(values) - Window + 1 :
             Spread(SubSeq(values, i, i + Window - 1), epsilon)
        /\ \A m \in 1 .. Len(values) - Window :
             (\A k \in m .. Len(values) : snapshots[k] = snapshots[m]) =>
               heartbeat \in 1 .. m + 1
        /\ \A k \in 1 .. Len(values) :
             heartbeat # None =>
               first_stable_index(SubSeq(values, 1, k), epsilon) <= heartbeat
=============================================================================
