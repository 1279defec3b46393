---------------------------- MODULE PropertySync ----------------------------
(***************************************************************************)
(* Synchronization of property maps between the render client and the      *)
(* render server (src/components/render/scene_render/interchange/sources/  *)
(* render_interchange_property_synchronizer.cpp and                        *)
(* render_interchange_property_map_auto_writer.cpp), with the part of      *)
(* common::PropertyMap it depends on.                                      *)
(*                                                                         *)
(* A map has a layout, which it may share with other maps, and data.  The  *)
(* identifiers of maps and layouts are their addresses: when an object has *)
(* died, a new one may have its identifier.  A layout is known by its      *)
(* Shape, which stands for its hash.  The writer remembers what it sent    *)
(* and sends a layout only when the reader should not have it.             *)
(*                                                                         *)
(* Both sides keep descriptors of layouts, which live as long as something *)
(* refers to them: the table of layouts or a descriptor of a map.          *)
(***************************************************************************)
EXTENDS Naturals, Sequences, FiniteSets, SequencesExt

CONSTANTS Maps,        \* addresses of property maps
          Layouts,     \* addresses of property layouts
          Shapes,      \* contents of a layout
          Values,      \* data of a map
          Sparse,      \* data that index a string beyond the count of string properties
          Descs,       \* names of the descriptors
          MaxChanges,  \* bound: operations on maps
          MaxStream,   \* bound: commands the reader is behind
          MaxFaults,   \* bound: writes that fail
          None

\* The contents of a map, and what the two sides remember of one.
States     == [shape : Shapes, val : Values]
WriterMaps == [desc : Descs, hash : States]
ReaderMaps == [desc : Descs, shape : Shapes, val : Values \cup {None}]

\* There are descriptors enough, and None is no object.
ASSUME SyncAssumption ==
  /\ MaxChanges \in Nat /\ MaxStream \in Nat \ {0} /\ MaxFaults \in Nat
  /\ IsFiniteSet(Maps) /\ IsFiniteSet(Layouts) /\ IsFiniteSet(Descs)
  /\ Cardinality(Descs) >= Cardinality(Maps) + Cardinality(Layouts)
  /\ Sparse \subseteq Values
  /\ None \notin Maps \cup Layouts \cup Shapes \cup Values
  /\ None \notin Descs /\ None \notin States /\ None \notin [shape : Shapes, val : {None}]
  /\ None \notin WriterMaps /\ None \notin ReaderMaps

VARIABLES lay,      \* the layout of each map, None if the map does not exist
          data,     \* the data of each map, None if it does not exist
          shape,    \* the shape of each layout, None if no map uses it
          changes,  \* operations so far
          \* PropertyMapWriter
          wdesc,      \* its layout descriptors: identifier and hash
          wlayouts,   \* LayoutMap
          wmaps,      \* MapDescMap: layout descriptor and hash
          tracked,    \* layouts whose end the writer is told of
          \* PropertyMapAutoWriter
          dirty,      \* maps with MapDesc::dirty
          first, last, next,                  \* update_list
          layout_remove_list, map_remove_list,
          pc,         \* where Write is
          cur,        \* the loop variable of Write
          stream,     \* commands written and not read
          \* PropertyMapReader
          rdesc,      \* its layout descriptors: source_id and shape
          rlayouts,   \* LayoutMap
          rmaps,      \* MapDescMap: descriptor, layout_hash and buffer
          faults,     \* writes that have failed
          \* history
          unsent,     \* maps whose last write has failed
          mistaken,   \* layouts the writer took for dead ones, or for sent
          misread     \* maps whose last update was read with no layout or another

source  == <<lay, data, shape, changes>>
writer  == <<wdesc, wlayouts, wmaps, tracked>>
list    == <<dirty, first, last, next>>
removes == <<layout_remove_list, map_remove_list>>
loop    == <<pc, cur, faults>>
reader  == <<rdesc, rlayouts, rmaps>>
vars    == <<source, writer, list, removes, loop, stream, reader, unsent, mistaken, misread>>

Live  == {m \in Maps : lay[m] # None}
InUse == {lay[m] : m \in Live}
Users(l) == {m \in Live : lay[m] = l}
Own(m) == {l \in Layouts : Users(l) = {m}}  \* the layout only m refers to

\* PropertyMap::Hash: layout and data together.
Hash(m) == [shape |-> shape[lay[m]], val |-> data[m]]

Init ==
  /\ lay = [m \in Maps |-> None]
  /\ data = [m \in Maps |-> None]
  /\ shape = [l \in Layouts |-> None]
  /\ changes = 0
  /\ wdesc = <<>> /\ rdesc = <<>>
  /\ wlayouts = [l \in Layouts |-> None] /\ rlayouts = wlayouts
  /\ wmaps = [m \in Maps |-> None] /\ rmaps = wmaps
  /\ tracked = {}
  /\ dirty = {}
  /\ first = None /\ last = None /\ next = [m \in Maps |-> None]
  /\ layout_remove_list = <<>> /\ map_remove_list = <<>>
  /\ pc = "idle" /\ cur = None /\ faults = 0
  /\ stream = <<>>
  /\ unsent = {} /\ mistaken = {} /\ misread = {}

-----------------------------------------------------------------------------
\* Descriptors are counted references: one lives while the table of layouts or
\* a map's descriptor refers to it.
Referred(layouts, maps) ==
  {layouts[l] : l \in Layouts} \cup {maps[m].desc : m \in {n \in Maps : maps[n] # None}}
Collect(descs, layouts, maps) ==
  [d \in DOMAIN descs \cap Referred(layouts, maps) |-> descs[d]]
NewDesc(descs) == CHOOSE d \in Descs \ DOMAIN descs : TRUE
With(descs, d, value) == [e \in DOMAIN descs \cup {d} |->
                            IF e = d THEN value ELSE descs[e]]

\* PropertyMapWriter::Impl::RemoveLayout and RemovePropertyMap, called when the
\* layouts in dead and the maps in gone are destroyed, with the handlers
\* OnPropertyLayoutRemoved and OnPropertyMapRemoved.
Forget_LayoutKept(dead, gone) ==  \* (fault) the writer keeps the layout's descriptor
  /\ UNCHANGED wlayouts
  /\ wmaps' = [m \in Maps |-> IF m \in gone THEN None ELSE wmaps[m]]
  /\ wdesc' = Collect(wdesc, wlayouts', wmaps')
  /\ tracked' = tracked \ dead
  /\ layout_remove_list' = layout_remove_list \o SetToSeq(dead \cap tracked)
  /\ map_remove_list' = map_remove_list \o SetToSeq({m \in gone : wmaps[m] # None})
Forget(dead, gone) ==
  /\ wlayouts' = [l \in Layouts |-> IF l \in dead \cap tracked THEN None ELSE wlayouts[l]]
  /\ wmaps' = [m \in Maps |-> IF m \in gone THEN None ELSE wmaps[m]]
  /\ wdesc' = Collect(wdesc, wlayouts', wmaps')
  /\ tracked' = tracked \ dead
  /\ layout_remove_list' = layout_remove_list \o SetToSeq(dead \cap tracked)
  /\ map_remove_list' = map_remove_list \o SetToSeq({m \in gone : wmaps[m] # None})

\* MapDesc::AddToList.  list.last stays where it is: a third map takes the
\* place of the second.
AddToList_Front(m) ==  \* (fault) a second map takes the place of the first
  /\ next' = [next EXCEPT ![m] = None]
  /\ first' = m /\ last' = m
AddToList(m) ==
  IF last # None
  THEN /\ next' = [[next EXCEPT ![m] = None] EXCEPT ![last] = m]
       /\ UNCHANGED <<first, last>>
  ELSE /\ next' = [next EXCEPT ![m] = None]
       /\ first' = m /\ last' = m

\* MapDesc::OnUpdate, the handler of the map's signal.
OnUpdate(m) ==
  IF m \in dirty THEN UNCHANGED list
                 ELSE dirty' = dirty \cup {m} /\ AddToList(m)

-----------------------------------------------------------------------------
(* What happens to maps between two calls of Write. *)

Changing ==
  /\ pc = "idle" /\ changes < MaxChanges
  /\ changes' = changes + 1
  /\ UNCHANGED <<loop, stream, reader, mistaken, misread>>

\* A map is made, with a layout of its own or one that others use, and
\* CreateSynchronizer is called for it.
CreateSynchronizer(m, l, s, v) ==
  /\ Changing
  /\ m \notin Live
  /\ l \in InUse => s = shape[l]
  /\ lay' = [lay EXCEPT ![m] = l]
  /\ shape' = [shape EXCEPT ![l] = s]
  /\ data' = [data EXCEPT ![m] = v]
  /\ dirty' = dirty \cup {m} /\ AddToList(m)
  /\ UNCHANGED <<writer, removes, unsent>>

\* PropertyMap::SetProperty, which leaves the indices of strings as they are.
SetProperty(m, v) ==
  /\ Changing
  /\ m \in Live /\ data[m] # v
  /\ v \in Sparse <=> data[m] \in Sparse
  /\ data' = [data EXCEPT ![m] = v]
  /\ OnUpdate(m)
  /\ UNCHANGED <<lay, shape, writer, removes, unsent>>

\* PropertyMap::AddProperty, RemoveProperty: CaptureLayout first, which clones
\* a layout that other maps use.  The data change with the layout: RemoveProperty
\* keeps the string of a property it removes, unless that is the only one of its
\* type, and does not renumber the others.
ChangeLayout(m, l, s, v) ==
  /\ Changing
  /\ m \in Live /\ s # shape[lay[m]]
  /\ IF lay[m] \in Own(m) THEN l = lay[m] ELSE l \notin InUse
  /\ lay' = [lay EXCEPT ![m] = l]
  /\ shape' = [shape EXCEPT ![l] = s]
  /\ data' = [data EXCEPT ![m] = v]
  /\ OnUpdate(m)
  /\ UNCHANGED <<writer, removes, unsent>>

\* PropertyMap::Reset (layout), which numbers the strings anew, and new data.
Reset(m, l, s, v) ==
  /\ Changing
  /\ m \in Live /\ l # lay[m] /\ v \notin Sparse
  /\ l \in InUse => s = shape[l]
  /\ lay' = [lay EXCEPT ![m] = l]
  /\ shape' = [k \in Layouts |-> IF k = l THEN s ELSE IF k \in Own(m) THEN None ELSE shape[k]]
  /\ data' = [data EXCEPT ![m] = v]
  /\ OnUpdate(m)
  /\ Forget(Own(m), {})
  /\ UNCHANGED unsent

\* The maps the next Write will reach.
Listed == {m \in {first, IF first = None THEN None ELSE next[first]} : m # None}

\* A map is destroyed, with its Synchronizer.  The list would keep a dangling
\* pointer to it: the model has only the histories in which it does not.
DestroyMap(m) ==
  /\ Changing
  /\ m \in Live \ (Listed \cup {last})
  /\ lay' = [lay EXCEPT ![m] = None]
  /\ data' = [data EXCEPT ![m] = None]
  /\ shape' = [l \in Layouts |-> IF l \in Own(m) THEN None ELSE shape[l]]
  /\ dirty' = dirty \ {m} /\ unsent' = unsent \ {m}
  /\ Forget(Own(m), {m})
  /\ UNCHANGED <<first, last, next>>

-----------------------------------------------------------------------------
(* PropertyMapAutoWriter::Write (stream). *)

Emit(c) == Len(stream) < MaxStream /\ stream' = Append(stream, c)

BeginWrite ==
  /\ pc = "idle"
  /\ pc' = "removals"
  /\ UNCHANGED <<source, writer, list, removes, cur, faults, stream, reader, unsent, mistaken, misread>>

RemoveLayoutCommand ==
  /\ pc = "removals" /\ layout_remove_list # <<>>
  /\ Emit([kind |-> "layout", id |-> Head(layout_remove_list)])
  /\ layout_remove_list' = Tail(layout_remove_list)
  /\ UNCHANGED <<source, writer, list, map_remove_list, loop, reader, unsent, mistaken, misread>>

RemoveMapCommand ==
  /\ pc = "removals" /\ layout_remove_list = <<>> /\ map_remove_list # <<>>
  /\ Emit([kind |-> "map", id |-> Head(map_remove_list)])
  /\ map_remove_list' = Tail(map_remove_list)
  /\ UNCHANGED <<source, writer, list, layout_remove_list, loop, reader, unsent, mistaken, misread>>

\* (fault) a removal in the list does not hold up the updates.
BeginUpdates_Early ==
  /\ pc = "removals"
  /\ pc' = "updates" /\ cur' = first
  /\ UNCHANGED <<source, writer, list, removes, faults, stream, reader, unsent, mistaken, misread>>
BeginUpdates ==
  /\ pc = "removals" /\ layout_remove_list = <<>> /\ map_remove_list = <<>>
  /\ pc' = "updates" /\ cur' = first
  /\ UNCHANGED <<source, writer, list, removes, faults, stream, reader, unsent, mistaken, misread>>

\* PropertyMapWriter::Write looks for the layout's descriptor in the map's own
\* descriptor, then in the table; a layout it does not know, or knows with
\* another hash, travels with the map.
Known(m) ==
  IF wmaps[m] # None /\ wdesc[wmaps[m].desc].id = lay[m] THEN wmaps[m].desc
                                                         ELSE wlayouts[lay[m]]
HasLayout_New(m) == Known(m) = None  \* (fault) a changed layout is not resent
HasLayout_OfNewMap(m) ==  \* (fault) a layout travels only with the map's first update
  wmaps[m] = None /\ ~ \E d \in DOMAIN wdesc : d = Known(m) /\ wdesc[d].hash = shape[lay[m]]
HasLayout(m) == ~ \E d \in DOMAIN wdesc : d = Known(m) /\ wdesc[d].hash = shape[lay[m]]

Synchronized(m) == wmaps[m] # None /\ wmaps[m].hash = Hash(m)

\* WriteLayout enters a layout in the table, and has itself told of its end,
\* when there was no descriptor of it; Write then enters the map.
DescFor(m) == IF Known(m) = None THEN NewDesc(wdesc) ELSE Known(m)
RememberLayout(m) ==
  LET l == lay[m]
  IN /\ wlayouts' = IF Known(m) = None THEN [wlayouts EXCEPT ![l] = DescFor(m)] ELSE wlayouts
     /\ tracked' = IF Known(m) = None THEN tracked \cup {l} ELSE tracked
     /\ wdesc' = Collect(With(wdesc, DescFor(m), [id |-> l, hash |-> shape[l]]), wlayouts', wmaps')
Remember(m) ==
  /\ wmaps' = [wmaps EXCEPT ![m] = [desc |-> DescFor(m), hash |-> Hash(m)]]
  /\ RememberLayout(m)

\* The map's descriptor is of a layout that has died, whose identifier the new
\* layout has: the table does not know it.
Mistaken(m) == wmaps[m] # None /\ Known(m) = wmaps[m].desc /\ wlayouts[lay[m]] # Known(m)

WriteUpdate ==
  /\ pc = "updates" /\ cur # None /\ ~Synchronized(cur)
  /\ Emit([kind |-> "update", id |-> cur, layout |-> lay[cur],
           has_layout |-> HasLayout(cur), state |-> Hash(cur)])
  /\ Remember(cur)
  /\ dirty' = dirty \ {cur}
  /\ unsent' = unsent \ {cur}
  /\ mistaken' = IF Mistaken(cur) THEN mistaken \cup {lay[cur]} ELSE mistaken
  /\ cur' = next[cur]
  /\ UNCHANGED <<source, first, last, next, removes, pc, faults, reader, misread>>

SkipUpdate ==
  /\ pc = "updates" /\ cur # None /\ Synchronized(cur)
  /\ dirty' = dirty \ {cur}
  /\ unsent' = unsent \ {cur}
  /\ cur' = next[cur]
  /\ UNCHANGED <<source, writer, first, last, next, removes, pc, faults, stream, reader, mistaken, misread>>

EndWrite ==
  /\ pc = "updates" /\ cur = None
  /\ first' = None /\ last' = None
  /\ pc' = "idle"
  /\ UNCHANGED <<source, writer, dirty, next, removes, cur, faults, stream, reader, unsent, mistaken, misread>>

\* The stream throws.  A removal stays in its list; an update is given up, and the
\* list starts behind it, with last where it was.  Behind WriteLayout the layout
\* has been noted as sent, which it was not.
WriteFails ==
  /\ faults < MaxFaults /\ faults' = faults + 1
  /\ pc' = "idle" /\ cur' = None
  /\ \/ /\ pc = "removals" /\ (layout_remove_list # <<>> \/ map_remove_list # <<>>)
        /\ UNCHANGED <<list, unsent, writer, mistaken>>
     \/ /\ pc = "updates" /\ cur # None /\ ~Synchronized(cur)
        /\ first' = next[cur]
        /\ dirty' = dirty \ {cur}
        /\ unsent' = unsent \cup {cur}
        /\ UNCHANGED <<last, next>>
        /\ \/ UNCHANGED <<writer, mistaken>>
           \/ /\ HasLayout(cur)
              /\ UNCHANGED wmaps /\ RememberLayout(cur)
              /\ mistaken' = mistaken \cup {lay[cur]}
  /\ UNCHANGED <<source, removes, stream, reader, misread>>

-----------------------------------------------------------------------------
(* PropertyMapReader, on the other thread: one command at a time. *)

Take(kind) == stream # <<>> /\ Head(stream).kind = kind /\ stream' = Tail(stream)
WriterSide == <<source, writer, list, removes, loop, unsent, mistaken>>

RemoveLayout_Kept ==  \* (fault) the reader ignores the end of a layout
  /\ Take("layout")
  /\ UNCHANGED <<WriterSide, reader, misread>>
RemoveLayout ==
  /\ Take("layout")
  /\ rlayouts' = [rlayouts EXCEPT ![Head(stream).id] = None]
  /\ rdesc' = Collect(rdesc, rlayouts', rmaps)
  /\ UNCHANGED <<WriterSide, rmaps, misread>>

RemoveProperties ==
  /\ Take("map")
  /\ rmaps' = [rmaps EXCEPT ![Head(stream).id] = None]
  /\ rdesc' = Collect(rdesc, rlayouts, rmaps')
  /\ misread' = misread \ {Head(stream).id}
  /\ UNCHANGED <<WriterSide, rlayouts>>

\* The map's own layout is the one the command means.
KeepsLayout(c) ==
  /\ rmaps[c.id] # None /\ ~c.has_layout
  /\ LET d == rdesc[rmaps[c.id].desc]
     IN d.id = c.layout /\ rmaps[c.id].shape = d.shape

\* SetBufferData takes a buffer that a map of the same layout wrote, if the indices
\* of its strings are below the number of strings the copy has, one for each string
\* property; if it throws, the strings of the copy are reset: what it then shows
\* (None) the source may never have had.
Decode(c, s) ==
  IF s = c.state.shape /\ c.state.val \notin Sparse THEN c.state.val ELSE None

\* A new copy is entered only if it took the buffer; one of another layout may
\* happen to fit it.
Entered(c, copy) ==
  IF rmaps[c.id] # None \/ copy.val # None THEN {copy}
  ELSE IF copy.shape = c.state.shape THEN {None} ELSE {None, copy}

\* ReadLayout changes the descriptor in the table; the maps that were made from
\* it keep the layout they captured.
Read ==
  /\ Take("update")
  /\ LET c == Head(stream)
         d == IF rlayouts[c.layout] = None THEN NewDesc(rdesc) ELSE rlayouts[c.layout]
         descs == IF c.has_layout
                  THEN With(rdesc, d, [id |-> c.layout, shape |-> c.state.shape])
                  ELSE rdesc
         \* the layout the buffer is read with
         found == IF KeepsLayout(c) THEN rmaps[c.id].shape
                  ELSE IF d \in DOMAIN descs THEN descs[d].shape ELSE None
     IN /\ IF KeepsLayout(c)
           THEN /\ rmaps' = [rmaps EXCEPT ![c.id].val = Decode(c, found)]
                /\ UNCHANGED <<rdesc, rlayouts>>
           ELSE IF d \in DOMAIN descs
           THEN /\ rlayouts' = [rlayouts EXCEPT ![c.layout] = d]
                /\ \E copy \in Entered(c, [desc |-> d, shape |-> found, val |-> Decode(c, found)]) :
                     rmaps' = [rmaps EXCEPT ![c.id] = copy]
                /\ rdesc' = Collect(descs, rlayouts', rmaps')
           ELSE UNCHANGED reader  \* "can't find layout", "no layout"
        /\ misread' = IF found = c.state.shape THEN misread \ {c.id} ELSE misread \cup {c.id}
  /\ UNCHANGED WriterSide

-----------------------------------------------------------------------------
Next ==
  \/ \E m \in Maps :
       \/ \E v \in Values : SetProperty(m, v)
       \/ \E l \in Layouts, s \in Shapes, v \in Values :
            CreateSynchronizer(m, l, s, v) \/ ChangeLayout(m, l, s, v) \/ Reset(m, l, s, v)
       \/ DestroyMap(m)
  \/ BeginWrite \/ RemoveLayoutCommand \/ RemoveMapCommand \/ BeginUpdates
  \/ WriteUpdate \/ SkipUpdate \/ EndWrite \/ WriteFails
  \/ RemoveLayout \/ RemoveProperties \/ Read

Spec == Init /\ [][Next]_vars

-----------------------------------------------------------------------------
DescsOf(layouts, maps) == Referred(layouts, maps) \ {None}

\* Types; each table of layouts names descriptors of the layout it is asked
\* for; and the update list has at most two maps.
TypeOK ==
  /\ lay \in [Maps -> Layouts \cup {None}]
  /\ data \in [Maps -> Values \cup {None}] /\ shape \in [Layouts -> Shapes \cup {None}]
  /\ Live = {m \in Maps : data[m] # None} /\ InUse = {l \in Layouts : shape[l] # None}
  /\ DOMAIN wdesc = DescsOf(wlayouts, wmaps) /\ DOMAIN rdesc = DescsOf(rlayouts, rmaps)
  /\ \A l \in Layouts :
       /\ wlayouts[l] # None => wdesc[wlayouts[l]].id = l /\ l \in tracked
       /\ rlayouts[l] # None => rdesc[rlayouts[l]].id = l
  /\ tracked \subseteq InUse
  /\ dirty \subseteq Live /\ (pc = "idle" => Listed \subseteq dirty)
  /\ \A m \in Listed : next[m] \in Listed \cup {None}
  /\ first # None => last # None

Lost == dirty \ Listed

\* Commands on their way, and those Write is about to make, that concern a map.
InFlight(m) ==
  \/ m \in dirty \/ m \in Range(map_remove_list)
  \/ \E i \in 1..Len(stream) : stream[i].kind # "layout" /\ stream[i].id = m

Replica(m) == IF rmaps[m] = None THEN None
              ELSE [shape |-> rmaps[m].shape, val |-> rmaps[m].val]

\* The copy of m after an update to s: the map as it is, or if its strings are
\* numbered with gaps no copy at all, or one of its layout with its strings reset.
Shows(m, s) ==
  IF s.val \in Sparse THEN Replica(m) \in {None, [s EXCEPT !.val = None]}
                      ELSE Replica(m) = s

\* Once nothing about a map is on its way, the reader has what the writer has:
\* its layout, its data (but not those that it refuses for the numbers of their
\* strings), or the knowledge that it is gone.  Not so, once a layout was taken
\* for the dead one that had its address, or for sent, for maps whose last update
\* the reader did not read with its layout.
Mirror ==
  \A m \in Maps \ unsent :
    ~InFlight(m) /\ (m \in misread => mistaken = {})
      => IF m \in Live THEN Shows(m, Hash(m)) ELSE Replica(m) = None

\* The reader is never asked for a layout it does not have (the internal errors
\* of PropertyMapReader::Read) and never reads a buffer with another layout than it
\* was written with, unless one was mistaken.  What it refuses for the numbers of its
\* strings is not meant.
NeverRefused == misread # {} => mistaken # {}

\* The reader keeps no layout the writer would not tell it to forget, but those
\* that were mistaken: of them it is never told.
NoLayoutLeaks ==
  \A l \in Layouts \ mistaken :
    rlayouts[l] # None =>
      \/ l \in tracked \/ l \in Range(layout_remove_list)
      \/ \E i \in 1..Len(stream) : stream[i].kind = "layout" /\ stream[i].id = l

\* A map drops out of the update list without having been sent only when three
\* maps are changed between two writes, or after a write that failed.
LostOnlyByOverflow ==
  [][Lost' \subseteq Lost \/ Cardinality(dirty') > 2 \/ faults > 0]_vars

Note(c) == [map   |-> IF c.kind = "layout" THEN None ELSE c.id,
            state |-> IF c.kind = "update" THEN c.state ELSE None]

\* The protocol with its layouts, descriptors and hashes as PropertyReplica sees
\* it: whole states of maps, some of which a copy cannot take.
Abstract == INSTANCE PropertyReplica WITH
  Blank   <- [s \in {x \in States : x.val \in Sparse} |-> [s EXCEPT !.val = None]],
  source  <- [m \in Maps |-> IF m \in Live THEN Hash(m) ELSE None],
  gone    <- Range(map_remove_list),
  channel <- [i \in DOMAIN stream |-> Note(stream[i])],
  replica <- [m \in Maps |-> Replica(m)]

\* Until the writer mistakes an identifier, the detailed protocol implements
\* PropertyReplica: the reader's copies only take states the source had, in
\* order, and show nothing of a state they refuse but its layout; and no copy
\* outlives its map when another map gets its identifier.
ImplementsReplica ==
  Abstract!Init /\ [][mistaken' = {} => [Abstract!Next]_(Abstract!vars)]_vars
=============================================================================
