------------------------------ MODULE ViewCache ------------------------------
(***************************************************************************)
(* The cached answers of the view tools.  get_world_view                   *)
(* (src/src/mcp/tools_query.rs) keeps its last render in SharedState, where *)
(* the preview panel (ui/preview.rs) reads it frame by frame;              *)
(* get_nearby_blocks keeps its last response in a cache of its own.  Both  *)
(* are keyed by the revision of the snapshot (state.rs) and the parameters *)
(* of the request.                                                         *)
(*                                                                         *)
(* A snapshot is its revision; the render of a snapshot is the pair of its *)
(* revision and the parameters.  Tool calls, the user interface and the    *)
(* bot run on threads of their own, and every lock held is one step.       *)
(***************************************************************************)
EXTENDS Integers

CONSTANTS Viewers,   \* threads that call the view tools, the panel's among them
          Params,    \* radius and scale, or radius and filter
          None,      \* nothing cached, nothing shown
          MaxSeq,    \* bound: snapshot revisions
          MaxCalls   \* bound: calls of the view tools

Seqs == 0..MaxSeq
Image == [seq : Seqs, param : Params]
Key == [key : Seqs, param : Params]
Entry == [key : Seqs, param : Params, image : Image]

ASSUME ViewAssumption ==
  /\ None \notin Image \cup Key \cup Entry
  /\ MaxSeq \in Nat /\ MaxCalls \in Nat

VARIABLES
  seq,     \* revision of the stored snapshot
  online,  \* SharedState.bot_online
  cleared, \* the session ended and its view cache was cleared
  calls,   \* view tool calls made
  pc,      \* [Viewers -> control point]
  tool,    \* [Viewers -> "view" or "blocks"]
  param,   \* [Viewers -> parameters of the call]
  got,     \* [Viewers -> revision the call read]
  answer,  \* [Viewers -> image returned, or None]
  view,    \* SharedState.last_world_view
  blocks,  \* NEARBY_BLOCKS_CACHE
  frame,   \* TRUE: the panel saw that it must rebuild and did not yet
  texture, \* image the panel shows, or None
  shown    \* last_key of the panel: [key, param], or None

callVars == <<calls, pc, tool, param, got, answer>>
panelVars == <<frame, texture, shown>>
vars == <<seq, online, cleared, callVars, view, blocks, panelVars>>

Init ==
  /\ seq = 0 /\ online = TRUE /\ cleared = FALSE
  /\ calls = 0
  /\ pc = [v \in Viewers |-> "idle"]
  /\ tool \in [Viewers -> {"view"}]
  /\ param \in [Viewers -> Params]
  /\ got = [v \in Viewers |-> 0]
  /\ answer = [v \in Viewers |-> None]
  /\ view = None /\ blocks = None
  /\ frame = FALSE /\ texture = None /\ shown = None

Goto(v, point) == pc' = [pc EXCEPT ![v] = point]

\* WorldSnapshot.snapshot_seq, as the caches use it.
Revision(s) == s

Keyed(entry, v) ==
  entry # None /\ entry.key = Revision(got[v]) /\ entry.param = param[v]
Rendered(v) ==
  [key |-> Revision(got[v]), param |-> param[v], image |-> [seq |-> got[v], param |-> param[v]]]

-----------------------------------------------------------------------------
(* The bot. *)

\* update_snapshot, modify_snapshot: all on the bot thread.
Store ==
  /\ online /\ seq < MaxSeq
  /\ seq' = seq + 1
  /\ UNCHANGED <<online, cleared, callVars, view, blocks, panelVars>>

\* clear_session_state: the flag, then the cache.
GoOffline ==
  /\ online
  /\ online' = FALSE
  /\ UNCHANGED <<seq, cleared, callVars, view, blocks, panelVars>>

ClearView ==
  /\ ~online /\ ~cleared
  /\ view' = None
  /\ cleared' = TRUE
  /\ UNCHANGED <<seq, online, callVars, blocks, panelVars>>

GoOnline ==
  /\ cleared
  /\ online' = TRUE /\ cleared' = FALSE
  /\ UNCHANGED <<seq, callVars, view, blocks, panelVars>>

-----------------------------------------------------------------------------
(* A view tool. *)

\* require_online and read_snapshot; offline, the call is refused.
Request(v) ==
  /\ pc[v] \in {"idle", "done", "refresh"} /\ calls < MaxCalls /\ online
  /\ \E t \in {"view", "blocks"}, p \in Params :
       tool' = [tool EXCEPT ![v] = t] /\ param' = [param EXCEPT ![v] = p]
  /\ calls' = calls + 1
  /\ got' = [got EXCEPT ![v] = seq]
  /\ answer' = [answer EXCEPT ![v] = None]
  /\ Goto(v, "lookup")
  /\ UNCHANGED <<seq, online, cleared, view, blocks, panelVars>>

\* world_view_cache_meta
Probe(v) ==
  /\ pc[v] = "lookup" /\ tool[v] = "view"
  /\ Goto(v, IF Keyed(view, v) THEN "fetch" ELSE "render")
  /\ UNCHANGED <<seq, online, cleared, calls, tool, param, got, answer, view, blocks, panelVars>>

\* Variant: what the probe saw is not verified again.
FetchTrusting(v) ==
  /\ pc[v] = "fetch"
  /\ IF view # None
     THEN Goto(v, "done") /\ answer' = [answer EXCEPT ![v] = view.image]
     ELSE Goto(v, "render") /\ UNCHANGED answer
  /\ UNCHANGED <<seq, online, cleared, calls, tool, param, got, view, blocks, panelVars>>

\* get_world_view_cache, whose entry may be another one by now.
Fetch(v) ==
  /\ pc[v] = "fetch"
  /\ IF Keyed(view, v)
     THEN Goto(v, "done") /\ answer' = [answer EXCEPT ![v] = view.image]
     ELSE Goto(v, "render") /\ UNCHANGED answer
  /\ UNCHANGED <<seq, online, cleared, calls, tool, param, got, view, blocks, panelVars>>

\* get_nearby_blocks looks and copies under one lock.
Lookup(v) ==
  /\ pc[v] = "lookup" /\ tool[v] = "blocks"
  /\ IF Keyed(blocks, v)
     THEN Goto(v, "done") /\ answer' = [answer EXCEPT ![v] = blocks.image]
     ELSE Goto(v, "render") /\ UNCHANGED answer
  /\ UNCHANGED <<seq, online, cleared, calls, tool, param, got, view, blocks, panelVars>>

\* A miss: render the snapshot read, store the render, return it.
Render(v) ==
  /\ pc[v] = "render"
  /\ IF tool[v] = "view" THEN view' = Rendered(v) /\ UNCHANGED blocks
     ELSE blocks' = Rendered(v) /\ UNCHANGED view
  /\ answer' = [answer EXCEPT ![v] = Rendered(v).image]
  /\ Goto(v, "done")
  /\ UNCHANGED <<seq, online, cleared, calls, tool, param, got, panelVars>>

-----------------------------------------------------------------------------
(* The preview panel. *)

\* should_rebuild, on the meta data of the entry.
ShouldRebuild ==
  ~(view # None /\ shown = [key |-> view.key, param |-> view.param])

FrameLooks ==
  /\ ~frame /\ ShouldRebuild /\ (view # None \/ texture # None)
  /\ frame' = TRUE
  /\ UNCHANGED <<seq, online, cleared, callVars, view, blocks, texture, shown>>

\* Variant: a cache that is gone clears the texture and keeps its key.
FrameRebuildsHalf ==
  /\ frame
  /\ frame' = FALSE
  /\ IF view # None
     THEN texture' = view.image /\ shown' = [key |-> view.key, param |-> view.param]
     ELSE texture' = None /\ UNCHANGED shown
  /\ UNCHANGED <<seq, online, cleared, callVars, view, blocks>>

\* The entry is fetched again; its own key is kept with its image.
FrameRebuilds ==
  /\ frame
  /\ frame' = FALSE
  /\ IF view # None
     THEN texture' = view.image /\ shown' = [key |-> view.key, param |-> view.param]
     ELSE texture' = None /\ shown' = None
  /\ UNCHANGED <<seq, online, cleared, callVars, view, blocks>>

\* refresh_render clears the cache, then calls get_world_view.
Refresh(v) ==
  /\ pc[v] \in {"idle", "done"} /\ online
  /\ view' = None
  /\ Goto(v, "refresh")
  /\ UNCHANGED <<seq, online, cleared, calls, tool, param, got, answer, blocks, panelVars>>

View(v) == Probe(v) \/ Fetch(v) \/ Lookup(v) \/ Render(v)
Frame == FrameLooks \/ FrameRebuilds

Next ==
  \/ Store \/ GoOffline \/ ClearView \/ GoOnline \/ Frame
  \/ \E v \in Viewers : Request(v) \/ Refresh(v) \/ View(v)

Spec == Init /\ [][Next]_vars

\* Calls run to their end, a session that ended is cleared, frames are drawn.
FairSpec ==
  /\ Spec
  /\ WF_vars(Frame) /\ WF_vars(ClearView)
  /\ \A v \in Viewers : WF_vars(View(v))

-----------------------------------------------------------------------------
(* Properties. *)

TypeOK ==
  /\ seq \in Seqs /\ online \in BOOLEAN /\ cleared \in BOOLEAN /\ calls \in 0..MaxCalls
  /\ pc \in [Viewers -> {"idle", "refresh", "lookup", "fetch", "render", "done"}]
  /\ tool \in [Viewers -> {"view", "blocks"}]
  /\ param \in [Viewers -> Params] /\ got \in [Viewers -> Seqs]
  /\ answer \in [Viewers -> Image \cup {None}]
  /\ view \in Entry \cup {None} /\ blocks \in Entry \cup {None}
  /\ frame \in BOOLEAN /\ texture \in Image \cup {None}
  /\ shown \in Key \cup {None}

\* A call returns the render of the snapshot it read under the parameters it
\* asked for, whoever replaced the cached entry in between.
AnswerMatches ==
  \A v \in Viewers : pc[v] = "done" => answer[v] = [seq |-> got[v], param |-> param[v]]

\* What the panel shows is the render its key names.
PanelMatches ==
  /\ texture = None <=> shown = None
  /\ texture # None => shown = [key |-> Revision(texture.seq), param |-> texture.param]

\* The panel comes to show what is cached, a cleared cache included.
PanelCatchesUp == \A i \in Image \cup {None} :
  (<>[](IF view = None THEN i = None ELSE i = view.image)) => <>[](texture = i)
=============================================================================
