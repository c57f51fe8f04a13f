------------------------------ MODULE MCSafety ------------------------------
(* The parts of which only safety is asked, each on a small instance of    *)
(* its own: messages of several frames, publisher confirms and heartbeats  *)
(* of the AMQP client, the addresses it dials, proc_box's samples and      *)
(* settings, the files that describe the host, the rate limiter.  They     *)
(* share no variable: `part` names the one that moves, and TLC explores    *)
(* the sum of their state spaces, not the product.                         *)
EXTENDS Naturals, Sequences, TLC

CONSTANTS
  Senders, Channels, Sizes, Messages, ClientMax, ServerMax, Buffer,    \* of AmqpContent
  MaxPublished,                                                        \* of Confirms
  ClientHeartbeat, ServerHeartbeat, DialDeadline, MaxGap,              \* of Heartbeat
  Leader, Offspring, Spaced, Samplers, MaxWork, MaxSamples,            \* of ProcessSample
  Strings, Parsed,                                                     \* of Settings
  Pipes, WriteRates, WriteLens, ReadRates, ReadLens, Batches, Resolution, \* of Throttle
  Urls, Later, Configs,                                                \* of AmqpUri
  Hosts, Replaced                                                      \* of HostInfo

Parts == {"content", "confirms", "heartbeat", "sample", "settings", "writers", "readers", "uri", "host"}

VARIABLES
  part,
  sender, sendM, wire, recv, published, delivered, broken, crashed,                  \* content
  confirming, confirms, publishCounter, selected, outstanding, serverTag, answers,
  notified, panicked,                                                                \* confirms
  tickIn, sentAge, lastSent, deadline, deadlines, silence, server, connection,       \* heartbeat
  os, lastCPUTimes, collecting, stat, pids, at, found, steady, cpuTimes, reported,
  crossed, samples,                                                                  \* sample
  cli, env, args, value, flags, level, parsing,                                      \* settings
  maxRate, givenOut, locked, maxPerBatch, batchDone, sinceBatch, op, recent,         \* writers, readers
  url, given, tlsName, dialing, secure, config,                                      \* uri
  files, whole, looking, lsb, release, info                                          \* host

contentVars == <<sender, sendM, wire, recv, published, delivered, broken, crashed>>
confirmsVars == <<confirming, confirms, publishCounter, selected, outstanding, serverTag, answers,
                  notified, panicked>>
heartbeatVars == <<tickIn, sentAge, lastSent, deadline, deadlines, silence, server, connection>>
sampleVars == <<os, lastCPUTimes, collecting, stat, pids, at, found, steady, cpuTimes, reported,
                crossed, samples>>
settingsVars == <<cli, env, args, value, flags, level, parsing>>
throttleVars == <<maxRate, givenOut, locked, maxPerBatch, batchDone, sinceBatch, op, recent>>
uriVars == <<url, given, tlsName, dialing, secure, config>>
hostVars == <<files, whole, looking, lsb, release, info>>
vars == <<part, contentVars, confirmsVars, heartbeatVars, sampleVars, settingsVars, throttleVars, uriVars, hostVars>>

Content == INSTANCE AmqpContent WITH Lossy <- TRUE
Confirming == INSTANCE Confirms WITH EarlyPublish <- FALSE
Beat == INSTANCE Heartbeat
Process == INSTANCE ProcessSample WITH pc <- collecting
Flags == INSTANCE Settings WITH OnlyValid <- TRUE, pc <- parsing
Pool == INSTANCE Throttle
  WITH Writers <- Pipes, Readers <- {}, Rates <- WriteRates, Lens <- WriteLens, Failing <- {}
Reading == INSTANCE Throttle
  WITH Writers <- {}, Readers <- Pipes, Rates <- ReadRates, Lens <- ReadLens, Failing <- {}

Uri == INSTANCE AmqpUri WITH pc <- dialing
Host == INSTANCE HostInfo WITH pc <- looking, found <- release

(* URLs and machines to choose from.                                       *)
Addresses == INSTANCE MCAmqpUri WITH Urls <- {}, Later <- {}, Configs <- {}, MaxAddress <- 5, pc <- dialing
Machines == INSTANCE MCHostInfo WITH Hosts <- {}, pc <- looking, found <- release
MCUrls == Addresses!MCUrls \cup Addresses!MCLater
MCLater == Addresses!MCLater
MCConfigs == Addresses!MCConfigs
MCHosts == Machines!MCHosts

ASSUME ContentAssumption == Content!ContentAssumption
ASSUME ConfirmsAssumption == Confirming!ConfirmsAssumption
ASSUME BeatAssumption == Beat!HeartbeatAssumption
ASSUME ProcessAssumption == Process!ProcessSampleAssumption
ASSUME FlagsAssumption == Flags!SettingsAssumption
ASSUME PoolAssumption == Pool!ThrottleAssumption
ASSUME ReadingAssumption == Reading!ThrottleAssumption
ASSUME UriAssumption == Uri!AmqpUriAssumption
ASSUME HostAssumption == Host!HostInfoAssumption

Symmetric == Permutations(Senders) \cup Permutations(Channels) \cup Permutations(Pipes)
               \cup Permutations(Samplers)

(* Settings, an address and a machine are chosen when it is their turn.    *)
Off == "off"
Init ==
  /\ part \in Parts
  /\ Content!Init /\ Confirming!Init /\ Beat!Init /\ Process!Init
  /\ \/ part = "settings" /\ Flags!Init
     \/ /\ part # "settings" /\ cli = Off /\ env = Off /\ args = Off
        /\ value = Off /\ flags = Off /\ level = Off /\ parsing = Off
  /\ \/ part = "writers" /\ Pool!Init
     \/ part # "writers" /\ Reading!Init
  /\ \/ part = "uri" /\ Uri!Init
     \/ /\ part # "uri" /\ url = Off /\ given = Off /\ tlsName = Off
        /\ dialing = Off /\ secure = Off /\ config = Off
  /\ \/ part = "host" /\ Host!Init
     \/ /\ part # "host" /\ files = Off /\ whole = Off
        /\ looking = Off /\ lsb = Off /\ release = Off /\ info = Off

Next ==
  /\ \/ /\ part = "content" /\ Content!Next
        /\ UNCHANGED <<confirmsVars, heartbeatVars, sampleVars, settingsVars, throttleVars, uriVars, hostVars>>
     \/ /\ part = "confirms" /\ Confirming!Next
        /\ UNCHANGED <<contentVars, heartbeatVars, sampleVars, settingsVars, throttleVars, uriVars, hostVars>>
     \/ /\ part = "heartbeat" /\ Beat!Next
        /\ UNCHANGED <<contentVars, confirmsVars, sampleVars, settingsVars, throttleVars, uriVars, hostVars>>
     \/ /\ part = "sample" /\ Process!Next
        /\ UNCHANGED <<contentVars, confirmsVars, heartbeatVars, settingsVars, throttleVars, uriVars, hostVars>>
     \/ /\ part = "settings" /\ Flags!Next
        /\ UNCHANGED <<contentVars, confirmsVars, heartbeatVars, sampleVars, throttleVars, uriVars, hostVars>>
     \/ /\ \/ part = "writers" /\ Pool!Next
           \/ part = "readers" /\ Reading!Next
        /\ UNCHANGED <<contentVars, confirmsVars, heartbeatVars, sampleVars, settingsVars, uriVars, hostVars>>
     \/ /\ part = "uri" /\ Uri!Next
        /\ UNCHANGED <<contentVars, confirmsVars, heartbeatVars, sampleVars, settingsVars, throttleVars, hostVars>>
     \/ /\ part = "host" /\ Host!Next
        /\ UNCHANGED <<contentVars, confirmsVars, heartbeatVars, sampleVars, settingsVars, throttleVars, uriVars>>
  /\ UNCHANGED part

(* The sender of content and the throttled users never come to an end.     *)
Ends == part \notin {"content", "writers", "readers"} /\ UNCHANGED vars

Spec == Init /\ [][Next \/ Ends]_vars

-----------------------------------------------------------------------------
(* Messages of several frames arrive whole (channel.go).                   *)
MessagesArrive == Content!MessagesArrive

(* Publishings are confirmed once, and as answered (confirms.go).          *)
ConfirmsHold == Confirming!ConfirmsHold

(* Heartbeats in both directions (connection.go).                          *)
HeartbeatHolds == Beat!HeartbeatHolds

(* One process's failing figure costs no other, nor do other samples       *)
(* (process_stats.go).                                                     *)
SampleStands == Process!SampleStands

(* The command line overrides the environment (main.go, init).             *)
CommandLineOverrides == part = "settings" => Flags!CommandLineOverrides

(* Pools of writers and of readers keep their rate (iocontrol).            *)
RateKept == (part = "writers" => Pool!RateKept) /\ (part = "readers" => Reading!RateKept)

(* Addresses are split and dialed as their grammar and their scheme say    *)
(* (uri.go, connection.go).                                                *)
AddressesHold == part = "uri" => Uri!AddressesHold

(* The host is described as far as its files can be read (host_linux.go).  *)
HostDescribed == part = "host" => Host!HostDescribed
=============================================================================
