---------------------------- MODULE MultiDevice ----------------------------
(***************************************************************************)
(* pkg/device/multi.go: the layers are split over several devices; the one  *)
(* that holds the hidden state is cur, and an operation on a layer of       *)
(* another device takes the hidden state there first.  With one device this *)
(* is that device.                                                          *)
(***************************************************************************)
EXTENDS CudaBackend, LayerSplit

VARIABLES
  gpu,     \* the devices
  multi,   \* MultiBackend: bounds, cur and the pairs that cannot copy
  cfg      \* the devices and the model on them

Devices == 0..cfg.devices-1
Pair(a, b) == {<<a, b>>, <<b, a>>}

deviceForLayer(layer) == OwnerOf(multi.bounds, layer)

localLayer(i, layer) == layer - multi.bounds[i]

\* KVCacheInit: the plan for the offloaded layers, a KV on every device.
KVCacheInit(c) ==
  LET bounds == LayerSplitBounds(c.ngl, c.devices, c.split)
  IN  [bounds |-> bounds, cur |-> OwnerOf(bounds, 0), broken |-> {}]

-----------------------------------------------------------------------------
(* Where an operation runs: the devices and MultiBackend afterwards, and     *)
(* whether it got there.                                                     *)

Arrives(g, m, rc, cost) == [gpu |-> g, multi |-> m, rc |-> rc, cost |-> cost]

\* Mutant: the source stays active after the copy through the host.
BounceKeepsSource(g, src, dst, broken) ==
  {Arrives([g EXCEPT ![dst] = Activated(@, g[src].resid)],
           [multi EXCEPT !.cur = dst, !.broken = broken], "ok", None)}

\* The way through the host: HiddenDownload, then HiddenUpload.
Bounce(g, src, dst, broken) ==
  LET left == [g EXCEPT ![src] = clearResidencyLocked(@)]
      there == [multi EXCEPT !.cur = dst, !.broken = broken]
      here == [multi EXCEPT !.broken = broken]
  IN  {Arrives([left EXCEPT ![dst] = Activated(@, g[src].resid)], there, "ok", None),
       Arrives(left, here, "failed", "download"),
       Arrives([left EXCEPT ![dst].active = FALSE], here, "failed", "upload")}

\* tryPeerLocked: PeerCopyResidTo; when it fails the pair is not tried again
\* and the host serves (of two faults in one move only the first is modelled).
Peer(src, dst) ==
  UNION {IF p.rc = "ok"
         THEN {Arrives([gpu EXCEPT ![src] = p.src, ![dst] = p.dst],
                       [multi EXCEPT !.cur = dst], "ok", None)}
         ELSE {[a EXCEPT !.cost = p.cost] :
                 a \in {b \in Bounce([gpu EXCEPT ![dst] = p.dst], src, dst,
                                    multi.broken \cup Pair(src, dst)) : b.cost = None}} :
         p \in PeerCopyResidTo(gpu[src], gpu[dst])}

\* moveHiddenLocked
moveHiddenLocked(dst) ==
  LET src == multi.cur
      known == <<src, dst>> \in multi.broken
  IN  IF ~gpu[src].active THEN {Arrives(gpu, [multi EXCEPT !.cur = dst], "ok", None)}
      ELSE IF cfg.peer /\ ~known THEN Peer(src, dst)
      ELSE Bounce(gpu, src, dst, multi.broken \cup Pair(src, dst))

\* route, for the operations on the KV of a layer
route(layer) ==
  IF deviceForLayer(layer) = multi.cur THEN {Arrives(gpu, multi, "ok", None)}
  ELSE moveHiddenLocked(deviceForLayer(layer))

\* HiddenUpload: to the device of the first layer; the others lose theirs.
HiddenUploadFirst ==
  LET first == deviceForLayer(0)
  IN  {Arrives([d \in Devices |-> IF d # first /\ gpu[d].active
                                  THEN clearResidencyLocked(gpu[d]) ELSE gpu[d]],
               [multi EXCEPT !.cur = first], "ok", None)}

Routed == {"append", "scores", "qkv"}
Reach(o) ==
  IF o.kind \in Routed THEN route(o.layer)
  ELSE IF o.kind = "upload" THEN HiddenUploadFirst
  ELSE {Arrives(gpu, multi, "ok", None)}
=============================================================================
