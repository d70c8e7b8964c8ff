----------------------------- MODULE OverlayFile -----------------------------
(***************************************************************************)
(* The overlay file: how py/topology/generator.py writes it and how        *)
(* cpp/common/overlay.cpp, which has no YAML library, reads it line by     *)
(* line.                                                                   *)
(*                                                                         *)
(* A line is its indentation, the word in front of the colon (or the dash  *)
(* of a list item), and what follows: <<>> for nothing, <<v>> for one      *)
(* value, a sequence for [...], a function for {...}.  Comments and blank  *)
(* lines, which are skipped wherever they stand, are left out.             *)
(***************************************************************************)
EXTENDS Overlay

Line(indent, key, value) == [indent |-> indent, key |-> key, value |-> value]

(* What an overlay has where the file says nothing (overlay.hpp). *)
DefaultNode ==
    [host |-> "", port |-> 0, team |-> "", role |-> "", impl |-> "", virtual_host |-> "h1"]

DefaultOverlay ==
    [nodes |-> <<>>, edges |-> <<>>, routing |-> <<>>, data_owners |-> <<>>,
     chunking  |-> [initial_rows |-> 64, min_rows |-> 16, max_rows |-> 4096,
                    target_chunk_ms |-> 25],
     scheduler |-> [mode |-> "weighted_round_robin", max_concurrent_requests |-> 32],
     network   |-> [simulate |-> FALSE, inter_host_latency_ms |-> 0,
                    intra_host_latency_ms |-> 0, intra_host_max_rows |-> 0,
                    inter_host_max_rows |-> 0, compress_inter_host |-> FALSE]]

-----------------------------------------------------------------------------
(* emit_yaml *)

(* Every edge with the lesser end first, in order. *)
CanonicalEdges(edges) ==
    SortSeq(FoldSet(LAMBDA e, es : Append(es, <<Min({e[1], e[2]}), Max({e[1], e[2]})>>),
                    <<>>, edges),
            LAMBDA d, e : d[1] < e[1] \/ (d[1] = e[1] /\ d[2] < e[2]))

Section(key, lines) == <<Line(0, key, <<>>)>> \o lines

(* One indented line for each node, or for each of some fields. *)
PerNode(f)          == [n \in 1..Len(f) |-> Line(2, n, f[n])]
Fields(rec, keys)   == [k \in DOMAIN keys |-> Line(2, keys[k], <<rec[keys[k]]>>)]

EmitYaml(nodes, edges, owners, network) ==
    Section("nodes", PerNode(nodes))
    \o Section("edges", [k \in DOMAIN CanonicalEdges(edges) |->
                            Line(2, "-", CanonicalEdges(edges)[k])])
    \o Section("routing", PerNode(Routing(edges)))
    \o <<Line(0, "data_owners", owners)>>
    \o Section("network", Fields(network,
          <<"simulate", "inter_host_latency_ms", "intra_host_latency_ms">>))
    \o Section("chunking", Fields(DefaultOverlay.chunking,
          <<"initial_rows", "max_rows", "min_rows", "target_chunk_ms">>))
    \o Section("scheduler", Fields(DefaultOverlay.scheduler,
          <<"mode", "max_concurrent_requests">>))

-----------------------------------------------------------------------------
(* load_overlay *)

NoBlock == 0

(* A line at column 0 ends the section before it and begins another; the
   owners stand on that line. *)
Opened(reader, line) ==
    [section |-> line.key, row |-> NoBlock,
     out |-> IF line.key = "data_owners" /\ line.value # <<>>
             THEN [reader.out EXCEPT !.data_owners = line.value] ELSE reader.out]

(* Mutant: the rows of a block are read like the first. *)
RoutingLineFlat(reader, line) ==
    [reader EXCEPT !.row = line.key, !.out.routing = (line.key :> line.value) @@ @]

(* A row of the table is a flow map behind its node, or the lines indented
   further below it. *)
RoutingLine(reader, line) ==
    IF line.indent = 2
    THEN [reader EXCEPT !.row = IF line.value = <<>> THEN line.key ELSE NoBlock,
                        !.out.routing = (line.key :> line.value) @@ @]
    ELSE IF line.indent >= 4 /\ reader.row # NoBlock
    THEN [reader EXCEPT !.out.routing[reader.row] = (line.key :> Head(line.value)) @@ @]
    ELSE [reader EXCEPT !.row = NoBlock]

(* Unknown sections and fields are passed over. *)
Child(reader, line) ==
    CASE reader.section = "nodes" ->
            [reader EXCEPT !.out.nodes = (line.key :> (line.value @@ DefaultNode)) @@ @]
      [] reader.section = "edges" /\ Len(line.value) = 2 ->
            [reader EXCEPT !.out.edges = Append(@, line.value)]
      [] reader.section = "routing" ->
            RoutingLine(reader, line)
      [] reader.section \in {"chunking", "scheduler", "network"}
         /\ line.key \in DOMAIN reader.out[reader.section] ->
            [reader EXCEPT !.out[reader.section][line.key] = Head(line.value)]
      [] OTHER -> reader

(* A line indented by one ends its section without beginning another. *)
Read(reader, line) ==
    CASE line.indent = 0 -> Opened(reader, line)
      [] line.indent = 1 -> [reader EXCEPT !.section = "", !.row = NoBlock]
      [] OTHER           -> Child(reader, line)

(* The environment has hosts and ports by node, and numbers for chunking. *)
Rehosted(nodes, env) ==
    [n \in DOMAIN nodes |->
        [nodes[n] EXCEPT !.host = IF n \in DOMAIN env.host THEN env.host[n] ELSE @,
                         !.port = IF n \in DOMAIN env.port THEN env.port[n] ELSE @]]

(* A number counts only if it is positive; none is looked for to replace
   min_rows. *)
Resized(chunking, env) ==
    [k \in DOMAIN chunking |->
        IF k \in DOMAIN env.chunking \ {"min_rows"} /\ env.chunking[k] > 0
        THEN env.chunking[k] ELSE chunking[k]]

Overridden(overlay, env) ==
    [overlay EXCEPT !.nodes = Rehosted(@, env), !.chunking = Resized(@, env)]

LoadOverlay(lines, env) ==
    Overridden(FoldLeft(Read, [section |-> "", row |-> NoBlock, out |-> DefaultOverlay], lines).out,
               env)
=============================================================================
