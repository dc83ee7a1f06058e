---------------------------- MODULE GameCreation ----------------------------
(***************************************************************************)
(* logic.NewGame in the handler that found a group: profiles, generated by *)
(* an external service or configured, and agents, one after the other,     *)
(* with a role and a name each.  Several handlers do so at once, and all   *)
(* read one setting and one configuration.                                 *)
(***************************************************************************)
EXTENDS WaitingRoom, Functions

CONSTANTS
  Roles,          \* roles of the setting
  Villager,       \* the role of those for whom none is left
  RoleNum,        \* setting.RoleNumMap
  Names,          \* the names that profiles have
  ProfileLists,   \* what custom_profile.profiles may be
  Attempts        \* custom_profile.dynamic_profile.attempts

ASSUME CreationAssumption ==
  /\ IsFiniteSet(Roles) /\ Villager \in Roles /\ RoleNum \in [Roles -> Nat]
  /\ ProfileLists \subseteq Seq(Names) /\ Attempts \in Nat \ {0}

VARIABLES
  custom,      \* custom_profile: "off", "fixed" or "dynamic"
  profiles,    \* config.CustomProfile.Profiles
  making,      \* how far NewGame is: "not", "generating", "dealing", "made", "panicked"
  draft,       \* its locals: names generated, attempts for the next, copies of roles and profiles
  agents       \* the agents of a game that has not started, roles and names

creation == <<custom, profiles, making, draft, agents>>

NoDraft == [names |-> <<>>, attempts |-> 0, roles |-> RoleNum, profiles |-> <<>>]

\* NewSetting refuses fewer profiles than agents, unless they are dynamic.
CreationInit ==
  /\ custom \in {"off", "fixed", "dynamic"} /\ profiles \in ProfileLists
  /\ custom = "fixed" => Len(profiles) >= AgentCount
  /\ making = [g \in Connections |-> "not"] /\ draft = [g \in Connections |-> NoDraft]
  /\ agents = [g \in Connections |-> <<>>]

Makes(g, from, to) == making[g] = from /\ making' = [making EXCEPT ![g] = to]

Shuffles(list) ==
  {[i \in DOMAIN list |-> list[p[i]]] : p \in Bijection(DOMAIN list, DOMAIN list)}

\* variant: shuffles in place what the other games are dealing from
Deals_shared(g, list) ==
  \E shuffled \in Shuffles(list) :
    draft' = [d \in Connections |->
                IF d = g THEN [NoDraft EXCEPT !.profiles = shuffled]
                ELSE [draft[d] EXCEPT !.profiles = IF making[d] = "dealing" THEN shuffled ELSE @]]

\* CreateAgents, CreateAgentsWithProfiles: copies of the roles and of the
\* profiles are dealt.
Deals(g, list) ==
  \E shuffled \in Shuffles(list) :
    draft' = [draft EXCEPT ![g] = [NoDraft EXCEPT !.profiles = shuffled]]

NewGame(g) ==
  /\ \/ custom = "dynamic" /\ Makes(g, "not", "generating") /\ UNCHANGED draft
     \/ custom # "dynamic" /\ Makes(g, "not", "dealing") /\ Deals(g, profiles)
  /\ UNCHANGED <<custom, profiles, agents>>

\* generateProfileWithIgnoreNames: a name that is taken is asked for again; with
\* an error, or no attempt left, the configured profiles are used.
GenerateProfile(g) ==
  LET names == draft[g].names IN
  /\ \/ /\ Makes(g, "generating", "generating") /\ Len(names) < AgentCount
        /\ \E n \in Names :
             \/ /\ n \notin Range(names)
                /\ draft' = [draft EXCEPT ![g].names = Append(@, n), ![g].attempts = 0]
             \/ /\ n \in Range(names) /\ draft[g].attempts + 1 < Attempts
                /\ draft' = [draft EXCEPT ![g].attempts = @ + 1]
     \/ Makes(g, "generating", "dealing") /\ Len(names) < AgentCount /\ Deals(g, profiles)
     \/ Makes(g, "generating", "dealing") /\ Len(names) = AgentCount /\ Deals(g, names)
  /\ UNCHANGED <<custom, profiles, agents>>

AssignRole(roles) ==
  LET left == {r \in Roles : roles[r] > 0} IN IF left = {} THEN {Villager} ELSE left

\* variant: a role dealt is not taken off
Dealt_again(roles, role) == roles

Dealt(roles, role) == [roles EXCEPT ![role] = IF @ > 0 THEN @ - 1 ELSE @]

\* Agents without a profile are named by their number.
MakeAgent(g) ==
  LET i == Len(agents[g]) + 1
      dealt == draft[g].profiles
  IN
  /\ custom # "off" => i <= Len(dealt)
  /\ Makes(g, "dealing", IF i = AgentCount THEN "made" ELSE "dealing")
  /\ \E role \in AssignRole(draft[g].roles) :
       /\ agents' = [agents EXCEPT ![g] =
                       Append(@, [role |-> role, name |-> IF custom = "off" THEN i ELSE dealt[i]])]
       /\ draft' = [draft EXCEPT ![g] =
                      IF i = AgentCount THEN NoDraft ELSE [draft[g] EXCEPT !.roles = Dealt(@, role)]]
  /\ UNCHANGED <<custom, profiles>>

\* A profile beyond the list: the handler's goroutine panics and is recovered,
\* and the group it took has no game.
OutOfProfiles(g) ==
  /\ custom # "off" /\ Len(agents[g]) + 1 > Len(draft[g].profiles)
  /\ Makes(g, "dealing", "panicked")
  /\ UNCHANGED <<custom, profiles, draft, agents>>

\* The game has its agents from here on.
HandsOver(g) ==
  /\ making' = [making EXCEPT ![g] = "not"] /\ agents' = [agents EXCEPT ![g] = <<>>]
  /\ UNCHANGED <<custom, profiles, draft>>

-----------------------------------------------------------------------------
(* Properties *)

\* Where the configuration has every profile's name once (nothing checks it), a
\* game has; so it is with generated names.
NamesProper ==
  \A g \in Connections :
    (making[g] = "made" /\ IsInjective(profiles)) =>
      IsInjective([i \in DOMAIN agents[g] |-> agents[g][i].name])

\* One for every time a role may be given out.
Seats(roles) == UNION {{r} \X (1..roles[r]) : r \in Roles}

\* Where the roles configured are as many as the agents (nothing checks it), a
\* game has every role as often as its setting says.
RolesProper ==
  Cardinality(Seats(RoleNum)) = AgentCount =>
    \A g \in Connections, r \in Roles :
      making[g] = "made" =>
        Cardinality({i \in DOMAIN agents[g] : agents[g][i].role = r}) = RoleNum[r]

\* The cast of a game is proper, whatever the games made meanwhile deal from the
\* same setting and profiles.
CastProper == NamesProper /\ RolesProper

\* "Failed to generate the profiles, so the custom profiles are used": every
\* group that was found gets its game.
GroupsCast == \A g \in Connections : making[g] # "panicked"
=============================================================================
