------------------------------ MODULE Library ------------------------------
(***************************************************************************)
(* The parts that share no state with the rest: the breaker as its only    *)
(* caller sees it (the module extended), the ingest stages of the gateway, *)
(* the pools of translators, clock offsets, cadence rules, retries, the    *)
(* channel translator, the hot path, the telemetry path, health checks,    *)
(* the provisioning files, the modem and the LoRa radio.  A behaviour      *)
(* drives one of them, the subject, and the others keep their initial      *)
(* state.                                                                  *)
(***************************************************************************)
EXTENDS CircuitBreakerSequential, Sequences

CONSTANTS Protocols, spread_burst_threshold_ms, Stamps, max_messages, max_batch_size,
          MaxArrivals, MaxEmergencies,
          Workers, PoolProtocols, pool_size,
          Devices, Offsets, Confidences, max_offsets, max_age, MaxTime, MaxRegistrations,
          Rules, Unit, MaxRules,
          Attempts, BaseDelays, max_delay,
          Sendable, buffer_size, MaxSent,
          Uplinked, Buffers, SequenceSpace, MaxHot,
          CompactSpans, Entities, Byte, Times, Compressions,
          MaxBundles, MaxEncoded, MaxDeliveries, MaxCorrections,
          check_interval, Period, MaxWall, MaxClockSteps,
          MaxCommands, MaxHeard, MaxFaults

ASSUME LibraryAssumption ==
    /\ spread_burst_threshold_ms \in [Protocols -> Nat]
    /\ Stamps \subseteq Nat \X Nat
    /\ {max_messages, max_batch_size, MaxArrivals, pool_size} \subseteq Nat \ {0}
    /\ {max_offsets, Unit, buffer_size, Byte} \subseteq Nat \ {0}
    /\ {check_interval, Period, MaxCommands} \subseteq Nat \ {0}
    /\ {max_age, max_delay} \cup Attempts \cup BaseDelays \cup Buffers \subseteq Nat
    /\ MaxHot < SequenceSpace
    /\ {s.entity : s \in CompactSpans} \subseteq Entities

VARIABLES messages, ewma_state, stage, batch, emergencies, arrived,  \* Ingest
          urgent, stored, routes,
          pools, job, fallback,                                      \* TranslatorPool
          offsets, now, latest, registered,                          \* ClockReconciler
          rules, rate_limiters, action, asked, quiet,                \* CadenceTranslator
          policy, retry_pc, attempt, delay, answers, slept,          \* RetryPolicy
          input, hand, output, open, sent, received,                 \* Translation
          GLOBAL_SEQUENCE, encoded, calls,                           \* HotPath
          bundle, plain, settled, made, link, records, delivered,    \* Telemetry
          deliveries, corrections,
          STARTUP_TIME, wall, last_check, sleep, since, lost, moved, \* HealthChecker
          clock_steps,
          mounted, cert, config, status, step,                       \* ProvisioningService
          modem_state, network_type, enabled, call, at, commands,    \* AtModem
          questions, line, response, answered, cut_off,
          mode, fifo, irq, cs, op, size, data, result, heard,        \* LR1121
          faults, frames,
          subject

Arriving == INSTANCE Ingest
Pool == INSTANCE TranslatorPool WITH Protocols <- PoolProtocols
Clock == INSTANCE ClockReconciler WITH count <- registered
Cadence == INSTANCE CadenceTranslator
Retry == INSTANCE RetryPolicy WITH pc <- retry_pc
Translator == INSTANCE Translation
Hot == INSTANCE HotPath
Otel == INSTANCE Telemetry
Health == INSTANCE HealthChecker WITH MaxSteps <- MaxClockSteps, steps <- clock_steps
Files == INSTANCE ProvisioningService
Modem == INSTANCE AtModem WITH state <- modem_state, sent <- commands, asked <- questions,
                               returned <- answered
LoRa == INSTANCE LR1121 WITH returned <- frames

breaker == <<state, failure_count, since_failure, half_open_calls, pc, loaded, held, count,
             steps, leaked>>
ingest == <<messages, ewma_state, stage, batch, emergencies, arrived, urgent, stored, routes>>
pool == <<pools, job, fallback>>
clock == <<offsets, now, latest, registered>>
cadence == <<rules, rate_limiters, action, asked, quiet>>
retry == <<policy, retry_pc, attempt, delay, answers, slept>>
translator == <<input, hand, output, open, sent, received>>
hot == <<GLOBAL_SEQUENCE, encoded, calls>>
telemetry == <<bundle, plain, settled, made, link, records, delivered, deliveries, corrections>>
health == <<STARTUP_TIME, wall, last_check, sleep, since, lost, moved, clock_steps>>
files == <<mounted, cert, config, status, step>>
modem == <<modem_state, network_type, enabled, call, at, commands, questions, line, response,
           answered, cut_off>>
lora == <<mode, fifo, irq, cs, op, size, data, result, heard, faults, frames>>
all == <<breaker, ingest, pool, clock, cadence, retry, translator, hot, telemetry, health,
         files, modem, lora, subject>>

LibraryInit ==
    /\ subject \in {"breaker", "ingest", "pool", "clock", "cadence", "retry", "translator",
                    "hot", "telemetry", "health", "files", "modem", "lora"}
    /\ Init /\ Arriving!Init /\ Pool!Init /\ Clock!Init /\ Cadence!Init /\ Retry!Init
    /\ Translator!Init /\ Hot!Init /\ Otel!Init
    /\ Health!Init /\ Files!Init /\ Modem!Init /\ LoRa!Init
    /\ subject # "retry" =>                 \* one policy will do
         policy = CHOOSE p \in [max_attempts : Attempts, base_delay : BaseDelays] : TRUE
    /\ subject # "health" => STARTUP_TIME = 0

BreakerStep ==
    /\ subject = "breaker" /\ Next
    /\ UNCHANGED <<ingest, pool, clock, cadence, retry, translator, hot, telemetry,
                   health, files, modem, lora, subject>>

IngestStep ==
    /\ subject = "ingest" /\ Arriving!Next
    /\ UNCHANGED <<breaker, pool, clock, cadence, retry, translator, hot, telemetry,
                   health, files, modem, lora, subject>>

PoolStep ==
    /\ subject = "pool" /\ Pool!Next
    /\ UNCHANGED <<breaker, ingest, clock, cadence, retry, translator, hot, telemetry,
                   health, files, modem, lora, subject>>

ClockStep ==
    /\ subject = "clock" /\ Clock!Next
    /\ UNCHANGED <<breaker, ingest, pool, cadence, retry, translator, hot, telemetry,
                   health, files, modem, lora, subject>>

CadenceStep ==
    /\ subject = "cadence" /\ Cadence!Next
    /\ UNCHANGED <<breaker, ingest, pool, clock, retry, translator, hot, telemetry,
                   health, files, modem, lora, subject>>

RetryStep ==
    /\ subject = "retry" /\ Retry!Next
    /\ UNCHANGED <<breaker, ingest, pool, clock, cadence, translator, hot, telemetry,
                   health, files, modem, lora, subject>>

TranslatorStep ==
    /\ subject = "translator" /\ Translator!Next
    /\ UNCHANGED <<breaker, ingest, pool, clock, cadence, retry, hot, telemetry,
                   health, files, modem, lora, subject>>

HotStep ==
    /\ subject = "hot" /\ Hot!Next
    /\ UNCHANGED <<breaker, ingest, pool, clock, cadence, retry, translator,
                   telemetry, health, files, modem, lora, subject>>

TelemetryStep ==
    /\ subject = "telemetry" /\ Otel!Next
    /\ UNCHANGED <<breaker, ingest, pool, clock, cadence, retry, translator, hot,
                   health, files, modem, lora, subject>>

HealthStep ==
    /\ subject = "health" /\ Health!Next
    /\ UNCHANGED <<breaker, ingest, pool, clock, cadence, retry, translator, hot,
                   telemetry, files, modem, lora, subject>>

FilesStep ==
    /\ subject = "files" /\ Files!Next
    /\ UNCHANGED <<breaker, ingest, pool, clock, cadence, retry, translator, hot,
                   telemetry, health, modem, lora, subject>>

ModemStep ==
    /\ subject = "modem" /\ Modem!Next
    /\ UNCHANGED <<breaker, ingest, pool, clock, cadence, retry, translator, hot,
                   telemetry, health, files, lora, subject>>

LoRaStep ==
    /\ subject = "lora" /\ LoRa!Next
    /\ UNCHANGED <<breaker, ingest, pool, clock, cadence, retry, translator, hot,
                   telemetry, health, files, modem, subject>>

LibraryNext ==
    \/ BreakerStep \/ IngestStep \/ PoolStep \/ ClockStep \/ CadenceStep \/ RetryStep
    \/ TranslatorStep \/ HotStep \/ TelemetryStep
    \/ HealthStep \/ FilesStep \/ ModemStep \/ LoRaStep

LibrarySpec == LibraryInit /\ [][LibraryNext]_all
----------------------------------------------------------------------------
\* The spread shard gets the outliers, all the clear ones and only outliers
\* (EwmaSpreadState, gateway.rs).
OutliersAreRouted == Arriving!OutliersAreRouted

\* The store holds the last max_messages messages in lock order and its queries agree
\* (bitemporal.rs).
StoreHoldsLatest == Arriving!StoreHoldsLatest

\* Translators return to their pool, and the shared one is used only while all are out
\* (TranslatorPool, translator.rs).
TranslatorsComeBack == Pool!TranslatorsComeBack

\* A timestamp is corrected with the last offset registered for its device or not at
\* all (register_offset and reconcile, clock_reconciliation.rs).
OffsetsAreCurrent == Clock!OffsetsAreCurrent

\* A limited message is sent if and only if nothing was sent under the first rule for
\* its whole interval (translate_message, cadence_translation.rs).
ThrottleIsExact == Cadence!ThrottleIsExact

\* execute() calls the operation at most max_attempts times, with doubling delays in
\* between (RetryPolicy, reliability.rs).
RetriesAsConfigured == Retry!RetriesAsConfigured

\* Translations come out in order, none lost or cut (translator.rs, protocol.rs).
TranslationsAreWhole == Translator!TranslationsAreWhole

\* The hot path takes what the translator takes and repeats no sequence number
\* (asts_protobuf.rs).
FramesAreNumbered == Hot!FramesAreNumbered

\* A bundle compressed last and then encoded decodes to its spans, and the collector
\* records the times the sensor gave (otel_bundle.rs, otel_converter.rs,
\* otel_reconciler.rs).
BundlesArriveWhole == Otel!BundlesArriveWhole

\* The belief at a time does not depend on the order of arrival (otel_reconciler.rs).
BeliefIsLatest == Otel!BeliefIsLatest

\* is_healthy reports successes that are recent, up to what a clock was set back by
\* (HealthChecker, reliability.rs).
HealthIsCurrent == Health!HealthIsCurrent

\* No provisioning config without a certificate, whatever failed or crashed
\* (provision.rs).
ConfigNeedsCertificate == Files!ConfigNeedsCertificate

\* A response belongs to its command as long as no command was given up
\* (send_at, gm02sp.rs).
OwnAnswers == Modem!OwnAnswers

\* Frames are received in order, none twice and none that the gateway itself sent
\* (rx_packet and tx_packet, lr1121.rs).
FramesFromTheAir == LoRa!FramesFromTheAir
=============================================================================
