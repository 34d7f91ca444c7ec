--------------------------- MODULE ServerProfiles ---------------------------
(***************************************************************************)
(* MultiServerManager: the profiles of several servers, one of which is    *)
(* active.  Which one is kept twice, as m_activeServerId and as a flag in  *)
(* each profile; a profile's other fields are left out.  The class has no  *)
(* caller in the program yet: its operations come in any order.            *)
(***************************************************************************)
EXTENDS Naturals, Sequences, Lists

CONSTANTS
  Ids,         \* identifiers a profile may have
  NoId,        \* the empty one, that of a profile loaded without any
  MaxProfiles  \* bounds the profiles kept

ASSUME ProfilesAssumption == NoId \in Ids /\ MaxProfiles \in Nat

VARIABLES
  servers,   \* m_servers: the id of each profile and its isActive
  activeId,  \* m_activeServerId
  stray      \* history: m_activeServerId was last set to an id of no profile, or was
             \* left as it was by a load that was cut short

profilesVars == <<servers, activeId, stray>>

Profiles == [id : Ids, isActive : BOOLEAN]
HasId(id) == \E i \in DOMAIN servers : servers[i].id = id
FirstId(list) == IF list = <<>> THEN NoId ELSE list[1].id

\* setActiveServer's loop.
Mark(list, id) == [i \in DOMAIN list |-> [list[i] EXCEPT !.isActive = (list[i].id = id)]]

ProfilesInit == servers = <<>> /\ activeId = NoId /\ stray = FALSE

\* A profile whose id is listed replaces the first with it, flag and all; the first
\* profile of an empty list becomes the active one.
AddServer(p) ==
  IF HasId(p.id)
    THEN /\ LET i == CHOOSE i \in DOMAIN servers :
                       servers[i].id = p.id /\ \A j \in 1..(i - 1) : servers[j].id # p.id IN
            servers' = [servers EXCEPT ![i] = p]
         /\ UNCHANGED <<activeId, stray>>
    ELSE /\ Len(servers) < MaxProfiles
         /\ IF servers = <<>>
              THEN servers' = Mark(<<p>>, p.id) /\ activeId' = p.id /\ stray' = FALSE
              ELSE /\ servers' = Append(servers, p) /\ UNCHANGED activeId
                   /\ stray' = (stray /\ p.id # activeId)

Others(id) == {i \in DOMAIN servers : servers[i].id # id}

\* Variant: the active identifier is left behind.
RemoveServerKeepsActive(id) ==
  /\ servers' = Kept(servers, Others(id))
  /\ UNCHANGED <<activeId, stray>>

\* The next active profile is named by its id alone: its flag is not set.
RemoveServer(id) ==
  /\ servers' = Kept(servers, Others(id))
  /\ IF activeId = id
       THEN activeId' = FirstId(servers') /\ stray' = FALSE
       ELSE UNCHANGED <<activeId, stray>>

\* The id is not looked up: one of no profile leaves none active.
SetActiveServer(id) ==
  /\ servers' = Mark(servers, id) /\ activeId' = id
  /\ stray' = ~HasId(id)

SwitchTo(id) == HasId(id) /\ SetActiveServer(id)

\* A restart: toJson writes the profiles in order but neither flag nor m_activeServerId,
\* and loadFromJson makes the first one active.
SaveAndLoad ==
  /\ servers' = [i \in DOMAIN servers |-> [id |-> servers[i].id, isActive |-> FALSE]]
  /\ activeId' = FirstId(servers') /\ stray' = FALSE

\* loadFromJson of a document written by hand: ids may repeat or be missing.
Load(ids) ==
  /\ servers' = [i \in DOMAIN ids |-> [id |-> ids[i], isActive |-> FALSE]]
  /\ activeId' = FirstId(servers') /\ stray' = FALSE

\* The list is emptied before the document is looked at.  One that is no array leaves it
\* empty, and an entry with a field of another type throws behind the profiles before it:
\* m_activeServerId is not reached.
LoadCutShort(ids) ==
  /\ servers' = [i \in DOMAIN ids |-> [id |-> ids[i], isActive |-> FALSE]]
  /\ UNCHANGED activeId
  /\ stray' = (activeId \notin {ids[i] : i \in DOMAIN ids})

ProfilesNext ==
  \/ \E p \in Profiles : AddServer(p)
  \/ \E id \in Ids : RemoveServer(id) \/ SetActiveServer(id) \/ SwitchTo(id)
  \/ SaveAndLoad
  \/ \E n \in 0..MaxProfiles : \E ids \in [1..n -> Ids] : Load(ids) \/ LoadCutShort(ids)

ProfilesSpec == ProfilesInit /\ [][ProfilesNext]_profilesVars

-----------------------------------------------------------------------------
ProfilesTypeOK ==
  /\ servers \in Seq(Profiles) /\ Len(servers) <= MaxProfiles
  /\ activeId \in Ids /\ stray \in BOOLEAN

\* getActiveServer finds a profile whenever there is one, whatever is added, removed and
\* loaded, identifiers empty or repeated, unless setActiveServer was given an identifier
\* nobody has or a load was cut short; and either is mended by the next operation that
\* names a profile or adds the one named.
ActiveIsListed == servers # <<>> /\ ~stray => HasId(activeId)
=============================================================================
