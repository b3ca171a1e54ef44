------------------------------ MODULE HubLifecycle ------------------------------
(***************************************************************************)
(* What the program promises about a hub workspace, from its creation to   *)
(* running controllers: webhooks, then the condition, then the             *)
(* controllers, for one workspace at most of those whose names yield one   *)
(* ClusterManager, and nothing of it withdrawn while the workspace lives.  *)
(* Nothing of caches, passes, retries, ports or reports is in it.          *)
(*                                                                         *)
(* The order is promised to the first workspace of a name.  A workspace    *)
(* created again under the name may find its predecessor's condition on    *)
(* its way, and its predecessor's controllers at work.                     *)
(***************************************************************************)
EXTENDS Naturals

CONSTANTS
  Hubs,
  NameOf   \* the ClusterManager of each hub

VARIABLES
  born,     \* how many workspaces each name had
  alive,    \* the hubs whose workspace exists
  claims,   \* the hubs whose annotation their ClusterManager carries
  spoiled,  \* the ClusterManagers an administrator interfered with
  hooked,   \* the hubs with all admission webhooks in their workspace
  vouched,  \* the hubs whose workspace carries the condition
  running   \* the hubs with controllers

lifeVars == <<born, alive, claims, spoiled, hooked, vouched, running>>

LifeInit ==
  /\ born = [h \in Hubs |-> 0]
  /\ alive = {} /\ claims = {} /\ spoiled = {} /\ hooked = {} /\ vouched = {} /\ running = {}

Entitled(h) == h \in claims \/ NameOf[h] \in spoiled
First(h) == h \in alive /\ born[h] = 1

Create(h) ==
  /\ h \notin alive
  /\ alive' = alive \cup {h}
  /\ born' = [born EXCEPT ![h] = @ + 1]
  /\ UNCHANGED <<claims, spoiled, hooked, vouched, running>>

Delete(h) ==
  /\ h \in alive
  /\ alive' = alive \ {h} /\ hooked' = hooked \ {h} /\ vouched' = vouched \ {h}
  /\ UNCHANGED <<born, claims, spoiled, running>>

Claim(h) ==
  /\ \A g \in claims : NameOf[g] # NameOf[h]
  /\ claims' = claims \cup {h}
  /\ UNCHANGED <<born, alive, spoiled, hooked, vouched, running>>

\* The administrator may take the claim away.
Spoil(name) ==
  /\ spoiled' = spoiled \cup {name}
  /\ claims' = claims \/ claims' = {h \in claims : NameOf[h] # name}
  /\ UNCHANGED <<born, alive, hooked, vouched, running>>

Hook(h) ==
  /\ h \in alive /\ Entitled(h)
  /\ hooked' = hooked \cup {h}
  /\ UNCHANGED <<born, alive, claims, spoiled, vouched, running>>

Vouch(h) ==
  /\ h \in alive /\ Entitled(h)
  /\ First(h) => h \in hooked
  /\ vouched' = vouched \cup {h}
  /\ UNCHANGED <<born, alive, claims, spoiled, hooked, running>>

Run(h) ==
  /\ born[h] # 0 /\ Entitled(h)
  /\ First(h) => h \in vouched
  /\ running' = running \cup {h}
  /\ UNCHANGED <<born, alive, claims, spoiled, hooked, vouched>>

Stop == running' = {} /\ UNCHANGED <<born, alive, claims, spoiled, hooked, vouched>>

LifeNext ==
  \/ \E h \in Hubs : Create(h) \/ Delete(h) \/ Claim(h) \/ Hook(h) \/ Vouch(h) \/ Run(h)
  \/ \E h \in Hubs : Spoil(NameOf[h])
  \/ Stop

LifeSpec == LifeInit /\ [][LifeNext]_lifeVars
===============================================================================
