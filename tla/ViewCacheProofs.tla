--------------------------- MODULE ViewCacheProofs ---------------------------
(* ViewCache for any number of viewers, parameters and revisions. *)
EXTENDS ViewCache, TLAPS

\* A cached entry is the render its key names.
Genuine(entry) ==
  entry # None => entry.image = [seq |-> Revision(entry.key), param |-> entry.param]

\* The types, and what is cached.
CacheInv == TypeOK /\ Genuine(view) /\ Genuine(blocks)

-----------------------------------------------------------------------------
(* Types and cached entries. *)

\* What a call renders is an entry of the cache.
LEMMA RenderedType ==
  ASSUME TypeOK, NEW v \in Viewers
  PROVE  Rendered(v) \in Entry /\ Rendered(v).image \in Image /\ Genuine(Rendered(v))
  BY DEF TypeOK, Rendered, Revision, Genuine, Entry, Image

\* Nothing is cached at first.
LEMMA CacheInit == Init => CacheInv
<1> SUFFICES ASSUME Init PROVE CacheInv
  OBVIOUS
<1>1. /\ seq \in Seqs /\ calls \in 0..MaxCalls
      /\ param \in [Viewers -> Params] /\ got \in [Viewers -> Seqs]
  BY ViewAssumption DEF Init, Seqs
<1>2. /\ online \in BOOLEAN /\ cleared \in BOOLEAN /\ frame \in BOOLEAN
      /\ tool \in [Viewers -> {"view", "blocks"}]
  BY DEF Init
<1>3. pc \in [Viewers -> {"idle", "refresh", "lookup", "fetch", "render", "done"}]
  BY DEF Init
<1>4. /\ answer \in [Viewers -> Image \cup {None}]
      /\ view = None /\ blocks = None /\ texture = None /\ shown = None
  BY DEF Init
<1> QED BY <1>1, <1>2, <1>3, <1>4 DEF CacheInv, TypeOK, Genuine

\* Every step keeps the types and the entries.
LEMMA CacheStep == ASSUME CacheInv, [Next]_vars PROVE CacheInv'
<1> USE ViewAssumption DEF CacheInv
<1>1. CASE Store
  <2>1. seq' \in Seqs
    BY <1>1 DEF Store, TypeOK, Seqs
  <2> QED BY <1>1, <2>1 DEF Store, TypeOK, Genuine, callVars, panelVars
<1>2. CASE GoOffline
  BY <1>2 DEF GoOffline, TypeOK, Genuine, callVars, panelVars
<1>3. CASE ClearView
  BY <1>3 DEF ClearView, TypeOK, Genuine, callVars, panelVars
<1>4. CASE GoOnline
  BY <1>4 DEF GoOnline, TypeOK, Genuine, callVars, panelVars
<1>5. CASE FrameLooks
  BY <1>5 DEF FrameLooks, TypeOK, Genuine, callVars, panelVars
<1>6. CASE FrameRebuilds
  <2>1. view # None => view.image \in Image /\ [key |-> view.key, param |-> view.param] \in Key
    BY DEF TypeOK, Entry, Key
  <2>2. texture' \in Image \cup {None} /\ shown' \in Key \cup {None}
    BY <1>6, <2>1 DEF FrameRebuilds
  <2> QED BY <1>6, <2>2 DEF FrameRebuilds, TypeOK, Genuine, callVars
<1>7. ASSUME NEW v \in Viewers, Request(v) PROVE CacheInv'
  <2>1. calls' \in 0..MaxCalls
    BY <1>7 DEF Request, TypeOK
  <2>2. tool' \in [Viewers -> {"view", "blocks"}] /\ param' \in [Viewers -> Params]
    BY <1>7 DEF Request, TypeOK
  <2>3. /\ got' \in [Viewers -> Seqs] /\ answer' \in [Viewers -> Image \cup {None}]
        /\ pc' \in [Viewers -> {"idle", "refresh", "lookup", "fetch", "render", "done"}]
    BY <1>7 DEF Request, Goto, TypeOK
  <2> QED BY <1>7, <2>1, <2>2, <2>3 DEF Request, TypeOK, Genuine, panelVars
<1>8. ASSUME NEW v \in Viewers, Refresh(v) PROVE CacheInv'
  BY <1>8 DEF Refresh, Goto, TypeOK, Genuine, panelVars
<1>9. ASSUME NEW v \in Viewers, Probe(v) PROVE CacheInv'
  BY <1>9 DEF Probe, Goto, TypeOK, Genuine, panelVars
<1>10. ASSUME NEW v \in Viewers, Fetch(v) \/ Lookup(v) PROVE CacheInv'
  <2>1. Keyed(view, v) => view.image \in Image
    BY DEF Keyed, TypeOK, Entry
  <2>2. Keyed(blocks, v) => blocks.image \in Image
    BY DEF Keyed, TypeOK, Entry
  <2>3. answer' \in [Viewers -> Image \cup {None}]
    BY <1>10, <2>1, <2>2 DEF Fetch, Lookup, TypeOK
  <2>4. pc' \in [Viewers -> {"idle", "refresh", "lookup", "fetch", "render", "done"}]
    BY <1>10 DEF Fetch, Lookup, Goto, TypeOK
  <2> QED BY <1>10, <2>3, <2>4 DEF Fetch, Lookup, TypeOK, Genuine, panelVars
<1>11. ASSUME NEW v \in Viewers, Render(v) PROVE CacheInv'
  <2>1. Rendered(v) \in Entry /\ Rendered(v).image \in Image /\ Genuine(Rendered(v))
    BY RenderedType
  <2>2. answer' \in [Viewers -> Image \cup {None}]
    BY <1>11, <2>1 DEF Render, TypeOK
  <2>3. pc' \in [Viewers -> {"idle", "refresh", "lookup", "fetch", "render", "done"}]
    BY <1>11 DEF Render, Goto, TypeOK
  <2>4. view' \in {view, Rendered(v)} /\ blocks' \in {blocks, Rendered(v)}
    BY <1>11 DEF Render
  <2>5. Genuine(view)' /\ Genuine(blocks)'
    BY <2>1, <2>4 DEF Genuine
  <2> QED BY <1>11, <2>1, <2>2, <2>3, <2>4, <2>5 DEF Render, TypeOK, panelVars
<1>12. CASE UNCHANGED vars
  BY <1>12 DEF vars, TypeOK, Genuine, callVars, panelVars
<1> QED BY <1>1, <1>2, <1>3, <1>4, <1>5, <1>6, <1>7, <1>8, <1>9, <1>10, <1>11, <1>12
        DEF Next, Frame, View

\* The types and the entries hold in every behaviour.
LEMMA CacheAlways == Spec => []CacheInv
<1>1. CacheInv /\ [Next]_vars => CacheInv'
  BY CacheStep
<1> QED BY <1>1, CacheInit, PTL DEF Spec

\* Every variable keeps its type, for any viewers, parameters and bounds.
THEOREM TypeCorrect == Spec => []TypeOK
<1>1. CacheInv => TypeOK
  BY DEF CacheInv
<1> QED BY <1>1, CacheAlways, PTL

-----------------------------------------------------------------------------
(* Answers. *)

\* A cached entry with the key of a call is the render the call asks for.
LEMMA KeyedImage ==
  ASSUME NEW v \in Viewers, NEW entry, Genuine(entry), Keyed(entry, v)
  PROVE  entry.image = [seq |-> got[v], param |-> param[v]]
  BY DEF Genuine, Keyed, Revision

\* Every step keeps the answers right.
LEMMA AnswerStep == ASSUME CacheInv, AnswerMatches, [Next]_vars PROVE AnswerMatches'
<1> USE DEF CacheInv
<1>1. CASE UNCHANGED <<pc, got, param, answer>>
  BY <1>1 DEF AnswerMatches
<1>2. ASSUME NEW v \in Viewers, Request(v) \/ Refresh(v) PROVE AnswerMatches'
  <2>1. pc'[v] # "done"
    BY <1>2 DEF Request, Refresh, Goto, TypeOK
  <2>2. ASSUME NEW w \in Viewers, w # v
        PROVE  /\ pc'[w] = pc[w] /\ answer'[w] = answer[w]
               /\ got'[w] = got[w] /\ param'[w] = param[w]
    BY <1>2, <2>2 DEF Request, Refresh, Goto, TypeOK
  <2> QED BY <2>1, <2>2 DEF AnswerMatches
<1>3. ASSUME NEW v \in Viewers, View(v) PROVE AnswerMatches'
  <2>1. UNCHANGED <<got, param>>
    BY <1>3 DEF View, Probe, Fetch, Lookup, Render
  <2>2. ASSUME NEW w \in Viewers, w # v PROVE pc'[w] = pc[w] /\ answer'[w] = answer[w]
    BY <1>3, <2>2 DEF View, Probe, Fetch, Lookup, Render, Goto, TypeOK
  <2>3. CASE Probe(v)
    <3>1. pc'[v] # "done"
      BY <2>3 DEF Probe, Goto, TypeOK
    <3> QED BY <2>1, <2>2, <3>1 DEF AnswerMatches
  <2>4. CASE Fetch(v) \/ Lookup(v)
    <3>1. pc'[v] = "done" => answer'[v] = [seq |-> got[v], param |-> param[v]]
      BY <2>4, KeyedImage DEF Fetch, Lookup, Goto, TypeOK
    <3> QED BY <2>1, <2>2, <3>1 DEF AnswerMatches
  <2>5. CASE Render(v)
    <3>1. answer'[v] = [seq |-> got[v], param |-> param[v]]
      BY <2>5 DEF Render, Rendered, TypeOK
    <3> QED BY <2>1, <2>2, <3>1 DEF AnswerMatches
  <2> QED BY <1>3, <2>3, <2>4, <2>5 DEF View
<1> QED BY <1>1, <1>2, <1>3
        DEF Next, Store, GoOffline, ClearView, GoOnline, Frame, FrameLooks, FrameRebuilds,
            callVars, vars

\* A call returns the render of the snapshot it read under its parameters,
\* whoever replaced the cached entry between its probe and its fetch.
THEOREM AnswersCorrect == Spec => []AnswerMatches
<1>1. Init => AnswerMatches
  BY DEF Init, AnswerMatches
<1>2. CacheInv /\ AnswerMatches /\ [Next]_vars => AnswerMatches'
  BY AnswerStep
<1> QED BY <1>1, <1>2, CacheAlways, PTL DEF Spec

-----------------------------------------------------------------------------
(* The panel. *)

\* The panel shows the render its key names (preview_panel keeps the key of
\* the entry it fetched, not of the one that made it look).
THEOREM PanelCorrect == Spec => []PanelMatches
<1>1. Init => PanelMatches
  BY DEF Init, PanelMatches
<1>2. CacheInv /\ PanelMatches /\ [Next]_vars => PanelMatches'
  <2> SUFFICES ASSUME CacheInv, PanelMatches, [Next]_vars PROVE PanelMatches'
    OBVIOUS
  <2>1. CASE UNCHANGED <<texture, shown>>
    BY <2>1 DEF PanelMatches
  <2>2. CASE FrameRebuilds
    <3>1. CASE view = None
      BY <2>2, <3>1 DEF FrameRebuilds, PanelMatches
    <3>2. CASE view # None
      <4>1. /\ texture' = [seq |-> view.key, param |-> view.param]
            /\ shown' = [key |-> view.key, param |-> view.param]
        BY <2>2, <3>2 DEF FrameRebuilds, CacheInv, Genuine, Revision
      <4>2. view.key \in Seqs /\ view.param \in Params
        BY <3>2 DEF CacheInv, TypeOK, Entry
      <4>3. texture' # None /\ shown' # None
        BY <4>1, <4>2, ViewAssumption DEF Image, Key
      <4> QED BY <4>1, <4>3 DEF PanelMatches, Revision
    <3> QED BY <3>1, <3>2
  <2> QED BY <2>1, <2>2
          DEF Next, Store, GoOffline, ClearView, GoOnline, Frame, FrameLooks, Request, Refresh,
              View, Probe, Fetch, Lookup, Render, panelVars, vars
<1> QED BY <1>1, <1>2, CacheAlways, PTL DEF Spec
=============================================================================
