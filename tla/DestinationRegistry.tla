--------------------------- MODULE DestinationRegistry ---------------------------
(***************************************************************************)
(* What the Java front end keeps of the workers it has started             *)
(* (crates/logger/bindings-java): handles, and for each database the set   *)
(* of destinations a waiter has to ask.  A set is built one registration   *)
(* at a time and published when it is complete.  The calls come from Java, *)
(* which opens a database once at a time, but may stop the handles of an   *)
(* earlier open late.                                                      *)
(***************************************************************************)
EXTENDS DeviceOpen

VARIABLES registry,    \* the published set, and the one being built
          handles,     \* of each opener: destination -> registration
          calls        \* of each opener: where its sequence of calls is

javaVars == <<registry, handles, calls>>

NoGeneration == [gen |-> 0, count |-> 0, toks |-> [d \in {} |-> 0]]
NoHandle == [gen |-> 0, tok |-> 0]

JavaInit ==
  /\ registry = [active |-> NoGeneration, pending |-> NoGeneration, next |-> 1, opens |-> 0,
                  last |-> 0]              \* history: the set published last
  /\ handles = [o \in Openers |-> [d \in Dests |-> NoHandle]]
  /\ calls = [o \in Openers |-> [pc |-> "idle", at |-> 0]]

At(o, pc, d) == calls' = [calls EXCEPT ![o] = [pc |-> pc, at |-> d]]
JavaConf == [d \in Dests |-> DefaultPlace]
Front == layout.front = "java"

JavaOpens(o) ==
  /\ Front /\ calls[o].pc = "idle" /\ registry.opens < layout.inits
  /\ \A p \in Openers : calls[p].pc \notin {"spawn", "register"}
  /\ \A d \in Dests : handles[o][d] = NoHandle
  /\ registry' = [registry EXCEPT !.opens = @ + 1] /\ At(o, "spawn", 1)
  /\ UNCHANGED <<openVars, registryVars, handles>>

\* nativeSpawnConsolidator, first half
JavaSpawns(o) ==
  /\ calls[o].pc = "spawn"
  /\ LET d == calls[o].at IN
       IF CanSpawn(d, JavaConf) THEN Spawned(d, JavaConf) /\ At(o, "register", d)
       ELSE UNCHANGED worker /\ At(o, "abort", d)
  /\ UNCHANGED <<openVars, ckpt, staged, registry, handles>>

\* Destination 1 begins a new set; the number it counts with is also a token.
Building(d) ==
  IF d = 1 THEN [gen |-> registry.next, count |-> NDest, toks |-> [e \in {} |-> 0]]
  ELSE registry.pending

CanRegister(d) == Building(d).gen # 0 /\ d \notin DOMAIN Building(d).toks

\* register_destination_layout, complete sets are published at once
Registered(d) ==
  LET g == Building(d)
      tok == registry.next + (IF d = 1 THEN 1 ELSE 0)
      toks == [e \in DOMAIN g.toks \union {d} |-> IF e = d THEN tok ELSE g.toks[e]]
      whole == DOMAIN toks = 1..g.count IN
  /\ registry' = [registry EXCEPT
                    !.next = tok + 1,
                    !.pending = IF whole THEN NoGeneration ELSE [g EXCEPT !.toks = toks],
                    !.active = IF whole THEN [g EXCEPT !.toks = toks] ELSE @,
                    !.last = IF whole THEN g.gen ELSE @]

JavaRegisters(o) ==
  /\ calls[o].pc = "register"
  /\ LET d == calls[o].at IN
       IF CanRegister(d)
       THEN /\ Registered(d)
            /\ handles' = [handles EXCEPT ![o][d] = [gen |-> Building(d).gen,
                             tok |-> registry.next + (IF d = 1 THEN 1 ELSE 0)]]
            /\ worker' = Notified({d})
            /\ IF d = NDest THEN At(o, "idle", 0) ELSE At(o, "spawn", d + 1)
       ELSE worker' = Stopping({d}) /\ At(o, "abort", d) /\ UNCHANGED <<registry, handles>>
  /\ UNCHANGED <<openVars, ckpt, staged>>

\* An open that did not succeed is closed by Java.
JavaAborts(o) ==
  /\ calls[o].pc = "abort"
  /\ IF \E d \in Dests : handles[o][d] # NoHandle
     THEN At(o, "stop", CHOOSE d \in Dests : handles[o][d] # NoHandle)
     ELSE At(o, "idle", 0)
  /\ UNCHANGED <<openVars, registryVars, registry, handles>>

\* A bug: by its number only
ContainsToken_ByIndex(g, d, h) == h.gen # 0 /\ d \in DOMAIN g.toks

ContainsToken(g, d, h) == g.gen = h.gen /\ d \in DOMAIN g.toks /\ g.toks[d] = h.tok

Unregistered(d, h) ==
  registry' = [registry EXCEPT
                 !.pending = IF ContainsToken(@, d, h) THEN NoGeneration ELSE @,
                 !.active = IF ContainsToken(@, d, h) THEN NoGeneration ELSE @]

\* nativeStopConsolidator, in two steps: the registration goes first.
JavaStops(o) ==
  /\ Front /\ calls[o].pc = "idle"
  /\ \E d \in Dests : handles[o][d] # NoHandle /\ At(o, "stop", d)
  /\ UNCHANGED <<openVars, registryVars, registry, handles>>

Unregister(o) ==
  /\ calls[o].pc = "stop"
  /\ LET d == calls[o].at IN
       /\ Unregistered(d, handles[o][d]) /\ At(o, "shutdown", d)
       /\ handles' = [handles EXCEPT ![o][d] = NoHandle]
  /\ UNCHANGED <<openVars, registryVars>>

\* The worker, whoever else has a handle to it
ShutdownWorker(o) ==
  /\ calls[o].pc = "shutdown"
  /\ worker' = Stopping({calls[o].at})
  /\ At(o, IF \E d \in Dests : handles[o][d] # NoHandle THEN "abort" ELSE "idle", 0)
  /\ UNCHANGED <<openVars, ckpt, staged, registry, handles>>

\* The Java logger commits and ships by itself.
JavaCommits ==
  /\ Front /\ db.commit < layout.commits
  /\ \E o \in Openers : calls[o].pc = "idle" /\ \A d \in Dests : handles[o][d] # NoHandle
  /\ db' = [commit |-> db.commit + 1, told |-> db.commit + 1] /\ staged' = db.commit + 1
  /\ UNCHANGED <<layout, lock, meta, tracker, cell, ses, deaths, worker, ckpt, javaVars>>

JavaSteps(o) ==
  JavaOpens(o) \/ JavaSpawns(o) \/ JavaRegisters(o) \/ JavaAborts(o) \/ JavaStops(o)
  \/ Unregister(o) \/ ShutdownWorker(o)

\* The published set is complete, of one open, and all its handles are still held: a
\* waiter never asks a set that has lost one, nor one made of two.
PublishedSetIsWhole ==
  LET g == registry.active IN
  g.gen # 0 =>
    /\ DOMAIN g.toks = Dests
    /\ \E o \in Openers : \A d \in Dests : handles[o][d] = [gen |-> g.gen, tok |-> g.toks[d]]

\* The set published last stays published while its open keeps all its handles, whatever
\* handles of an earlier open are stopped late.
LastSetIsPublished ==
  \A o \in Openers :
    (\A d \in Dests : handles[o][d] # NoHandle /\ handles[o][d].gen = registry.last)
    => registry.active.gen = registry.last

\* What a waiter finds in the registry is the set of the last open, or nothing once one
\* of its handles is gone, in whatever order the handles of two opens come and go.
PublishedIsLast == PublishedSetIsWhole /\ LastSetIsPublished
================================================================================
