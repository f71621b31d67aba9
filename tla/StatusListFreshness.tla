------------------------ MODULE StatusListFreshness ------------------------
(***************************************************************************)
(* The time limits of a published status list: its token expires, the CDN  *)
(* nodes keep copies of it, a publication signs a new token every hour     *)
(* unless it fails, and a monitor asks one CDN node every ten minutes and  *)
(* complains of a token that expires too soon                              *)
(* (apps/io-wallet-user-func/src/infra/handlers/                           *)
(* status-list-publication-monitor.ts, src/infra/status-list-publication.ts*)
(* and src/token-status-list.ts).                                          *)
(*                                                                         *)
(* An age is counted in ticks, and stops at Old.  One list is modelled:    *)
(* lists share nothing but the timers.                                     *)
(***************************************************************************)
EXTENDS Naturals

CONSTANTS
  CdnNodes,
  JwtDuration,       \* statusListJwtDuration: 24 hours
  CacheMaxAge,       \* max-age of statusListBlobCacheControl: 12 hours
  MinimumValidity,   \* maxTokenValiditySeconds of the monitor: 12 hours
  MaxDelay           \* ticks from the signature of a token to its copy

ASSUME DurationsAssumption ==
  /\ {JwtDuration, CacheMaxAge, MinimumValidity, MaxDelay} \subseteq Nat
  /\ CacheMaxAge > 0 /\ CacheMaxAge <= MinimumValidity
  /\ CacheMaxAge + MaxDelay <= JwtDuration - MinimumValidity + 1

VARIABLES
  blobAge,    \* the age of the token in the blob
  copies,     \* the age of the token a node keeps, and of the copy
  monitored,  \* the monitor has run in this tick
  lastAlarm   \* ghost: ticks since the monitor complained

freshnessVars == <<blobAge, copies, monitored, lastAlarm>>

Old == JwtDuration + CacheMaxAge + MaxDelay
Older(age) == IF age < Old THEN age + 1 ELSE Old
NoCopy == [token |-> Old, copy |-> CacheMaxAge]

IsCached(n) == copies[n].copy < CacheMaxAge

FreshnessTypeOK ==
  /\ blobAge \in 0..Old
  /\ copies \in [CdnNodes -> [token : 0..Old, copy : 0..CacheMaxAge]]
  /\ monitored \in BOOLEAN
  /\ lastAlarm \in 0..Old

FreshnessInit ==
  /\ blobAge = 0
  /\ copies = [n \in CdnNodes |-> NoCopy]
  /\ monitored = FALSE
  /\ lastAlarm = Old

(* A publication copies a token it signed up to MaxDelay ago, and tries to *)
(* purge the nodes: the purge may fail.                                    *)
PublishStatusList ==
  /\ \E delay \in 0..MaxDelay : blobAge' = delay
  /\ \/ copies' = [n \in CdnNodes |-> NoCopy]
     \/ UNCHANGED copies
  /\ UNCHANGED <<monitored, lastAlarm>>

Fetch(n) ==
  /\ ~IsCached(n)
  /\ copies' = [copies EXCEPT ![n] = [token |-> blobAge, copy |-> 0]]

FetchByVerifier(n) == Fetch(n) /\ UNCHANGED <<blobAge, monitored, lastAlarm>>

ServedAge(n) == IF IsCached(n) THEN copies[n].token ELSE blobAge

\* Mutant: the monitor only looks whether the token has expired.
IsNotExpired(age) == JwtDuration > age

HasValidExpiration(age) ==
  /\ JwtDuration >= age
  /\ JwtDuration - age >= MinimumValidity

(* The monitor asks some node, whose copy it fills; a fetch that fails is  *)
(* a complaint too.                                                        *)
MonitorStatusList(n) ==
  /\ Fetch(n) \/ (IsCached(n) /\ UNCHANGED copies)
  /\ monitored' = TRUE
  /\ \/ lastAlarm' = 0
     \/ HasValidExpiration(ServedAge(n)) /\ UNCHANGED lastAlarm
  /\ UNCHANGED blobAge

(* A copy is dropped when its age reaches max-age.  The monitor runs many  *)
(* times in a tick.                                                        *)
Tick ==
  /\ monitored
  /\ blobAge' = Older(blobAge)
  /\ copies' = [n \in CdnNodes |->
       IF copies[n].copy + 1 < CacheMaxAge
         THEN [token |-> Older(copies[n].token), copy |-> copies[n].copy + 1]
         ELSE NoCopy]
  /\ monitored' = FALSE
  /\ lastAlarm' = Older(lastAlarm)

FreshnessNext ==
  \/ PublishStatusList
  \/ \E n \in CdnNodes : FetchByVerifier(n) \/ MonitorStatusList(n)
  \/ Tick

FreshnessSpec == FreshnessInit /\ [][FreshnessNext]_freshnessVars

(* A token that some node goes on showing for a tick after its expiry was  *)
(* announced: the monitor, which other nodes may have answered, complained *)
(* in the time a copy is kept.  The durations just fit: a copy taken when  *)
(* the monitor was still content is dropped when its token expires, or at  *)
(* most the time between two runs of the monitor later.                    *)
ExpiryIsAnnounced ==
  \A n \in CdnNodes : ServedAge(n) > JwtDuration => lastAlarm <= CacheMaxAge
=============================================================================
