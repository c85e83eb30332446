-------------------------------- MODULE Sources -------------------------------
(***************************************************************************)
(* rngkit_sources: discovery of entropy sources, opening one and reading   *)
(* samples from it, while devices are plugged and unplugged; and naming    *)
(* what is recorded from it.  The device libraries are external: what they *)
(* may answer is taken from how the adapters use them.                     *)
(*                                                                         *)
(* discover lists one family after the other, and devices come and go in   *)
(* between; every other call is one step.  answer is what the last call    *)
(* was asked and returned, gone with the next step.                        *)
(***************************************************************************)
EXTENDS Naming, FiniteSets, Functions

CONSTANTS
  Bitbs, Trngs,  (* devices that may be plugged in                          *)
  Sizes,         (* sample sizes asked for, in bits                         *)
  Starts,        (* times at which sessions and bundles are named           *)
  Intervals,     (* of those sessions and bundles                           *)
  Heads, Tokens, (* first and other tokens of names a reader is given       *)
  MaxTokens,     (* bound on the tokens after the first                     *)
  Offsets, Delays, Acquisitions  (* of the clock; rows behind the start     *)

Devices == Bitbs \cup Trngs
Soft    == {"rdseed", "pseudo"}
Unselected == "unselected"

ASSUME SourcesAssumption ==
  /\ IsFiniteSet(Devices)
  /\ Bitbs \cap Trngs = {}
  /\ (Soft \cup {Unselected}) \cap Devices = {}
  /\ Sizes \subseteq {n \in 1 .. MaxNumber : IsBits(n)}
  /\ Starts \subseteq Nat
  /\ Intervals \subseteq {n \in Nat : IsInterval(n)}
  /\ Heads \cup Tokens \subseteq Token /\ MaxTokens \in Nat
  /\ Offsets \subseteq Int /\ Delays \subseteq Nat
  /\ Acquisitions \subseteq Nat \cup {NoAcquisition}

VARIABLES
  plugged,    (* devices connected now                                    *)
  rdseed,     (* the processor has RDSEED                                 *)
  step,       (* the family discover is about to list                     *)
  found,      (* candidates so far                                        *)
  issues,     (* failures so far                                          *)
  handle,     (* the opened source                                        *)
  answer,     (* the result of the last call                              *)
  steady      (* history: plugged ever since discover began               *)

world  == <<plugged, rdseed>>
report == <<step, found, issues, steady>>
vars   == <<world, report, handle, answer>>

Families == {"bitb", "trng", "rdseed", "pseudo"}

FamilyOf(source) ==
  IF source \in Bitbs THEN "bitb" ELSE IF source \in Trngs THEN "trng" ELSE source

DevicesOf(family) == IF family = "bitb" THEN Bitbs ELSE Trngs

-----------------------------------------------------------------------------
(* SourceErrorKind of the libraries' errors *)

(* mutated: no permission is no device *)
MapBitbQuietly ==
  [NoDevice |-> "NotAvailable", MultipleDevices |-> "MultipleDevices",
   MissingSerial |-> "SelectionRequired", DeviceNotFound |-> "DeviceNotFound",
   PermissionDenied |-> "NotAvailable",
   DeviceBusy |-> "DeviceBusy", DeviceDisconnected |-> "Disconnected",
   TransferTimeout |-> "Timeout", InitializationFailed |-> "Protocol",
   AllocationFailed |-> "AllocationFailed",
   ReadRetriesExhausted |-> "EntropyUnavailable", Usb |-> "Other"]

MapBitb ==
  [NoDevice |-> "NotAvailable", MultipleDevices |-> "MultipleDevices",
   MissingSerial |-> "SelectionRequired", DeviceNotFound |-> "DeviceNotFound",
   PermissionDenied |-> "PermissionDenied",
   DeviceBusy |-> "DeviceBusy", DeviceDisconnected |-> "Disconnected",
   TransferTimeout |-> "Timeout", InitializationFailed |-> "Protocol",
   AllocationFailed |-> "AllocationFailed",
   ReadRetriesExhausted |-> "EntropyUnavailable", Usb |-> "Other"]

MapTrng ==
  [NoDevice |-> "NotAvailable", MultipleDevices |-> "MultipleDevices",
   MissingPath |-> "SelectionRequired", DeviceNotFound |-> "DeviceNotFound",
   PermissionDenied |-> "PermissionDenied",
   DeviceUnavailable |-> "Disconnected", ReadTimeout |-> "Timeout",
   AllocationFailed |-> "AllocationFailed", Serial |-> "Other"]

MapRdseed ==
  [UnsupportedInstruction |-> "Unsupported", InvalidRetryLimit |-> "InvalidRequest",
   EntropyUnavailable |-> "EntropyUnavailable",
   AllocationFailed |-> "AllocationFailed"]

MapPseudo ==
  [SystemEntropyUnavailable |-> "EntropyUnavailable",
   InvalidSamplingLimit |-> "InvalidRequest",
   AllocationFailed |-> "AllocationFailed"]

KindOf(family, error) ==
  IF family = "bitb" THEN MapBitb[error]
  ELSE IF family = "trng" THEN MapTrng[error]
  ELSE IF family = "rdseed" THEN MapRdseed[error] ELSE MapPseudo[error]

(* What a library may fail with although the device is there *)
ListErrors == [bitb |-> {"PermissionDenied", "Usb"},
               trng |-> {"PermissionDenied", "Serial"}]

OpenErrors ==
  [bitb   |-> {"PermissionDenied", "DeviceBusy", "InitializationFailed", "MissingSerial",
               "Usb"},
   trng   |-> {"PermissionDenied", "DeviceUnavailable", "MissingPath", "Serial"},
   rdseed |-> {"InvalidRetryLimit"},
   pseudo |-> {"SystemEntropyUnavailable", "InvalidSamplingLimit"}]

ReadErrors ==
  [bitb   |-> {"TransferTimeout", "ReadRetriesExhausted", "AllocationFailed"},
   trng   |-> {"ReadTimeout", "AllocationFailed"},
   rdseed |-> {"EntropyUnavailable", "AllocationFailed"},
   pseudo |-> {"AllocationFailed"}]

GoneErrors == [bitb |-> "DeviceDisconnected", trng |-> "DeviceUnavailable"]

-----------------------------------------------------------------------------
NoHandle == [source |-> "none", fold |-> NoFold]

(* result: "ok", a kind of SourceError, a reader or an offset; the other     *)
(* fields are there for the calls they are of                                *)
NoAnswer == [call |-> "none", result |-> "none"]

Init ==
  /\ plugged \in SUBSET Devices
  /\ rdseed \in BOOLEAN
  /\ step = "idle" /\ found = <<>> /\ issues = <<>> /\ steady = {}
  /\ handle = NoHandle /\ answer = NoAnswer

Plug(d) ==
  /\ d \notin plugged
  /\ plugged' = plugged \cup {d}
  /\ answer' = NoAnswer
  /\ UNCHANGED <<rdseed, report, handle>>

Unplug(d) ==
  /\ d \in plugged
  /\ plugged' = plugged \ {d}
  /\ steady' = steady \ {d}
  /\ answer' = NoAnswer
  /\ UNCHANGED <<rdseed, step, found, issues, handle>>

-----------------------------------------------------------------------------
(* discover *)

Discover ==
  /\ step = "idle"
  /\ step' = "bitb" /\ found' = <<>> /\ issues' = <<>> /\ steady' = plugged
  /\ answer' = NoAnswer
  /\ UNCHANGED <<world, handle>>

(* the library lists devices in an order of its own *)
Orders(devices) == Bijection(1 .. Cardinality(devices), devices)

Present(family) == plugged \cap DevicesOf(family)

Listed(family) ==
  /\ \E order \in Orders(Present(family)) : found' = found \o order
  /\ UNCHANGED issues

(* NotAvailable is nothing to report *)
ListFailed(family) ==
  /\ \E error \in ListErrors[family] \cup {"NoDevice"} :
       LET kind == KindOf(family, error)
       IN  /\ error = "NoDevice" => Present(family) = {}
           /\ issues' = IF kind = "NotAvailable" THEN issues
                        ELSE Append(issues, [family |-> family, kind |-> kind])
  /\ UNCHANGED found

List(family, next) ==
  /\ step = family
  /\ step' = next
  /\ Listed(family) \/ ListFailed(family)
  /\ answer' = NoAnswer
  /\ UNCHANGED <<world, handle, steady>>

ListBitb == List("bitb", "trng")
ListTrng == List("trng", "soft")

ListSoft ==
  /\ step = "soft"
  /\ step' = "reported"
  /\ found' = found \o (IF rdseed THEN <<"rdseed", "pseudo">> ELSE <<"pseudo">>)
  /\ answer' = NoAnswer
  /\ UNCHANGED <<world, issues, handle, steady>>

(* the caller lets the report go *)
Forget ==
  /\ step = "reported"
  /\ step' = "idle" /\ found' = <<>> /\ issues' = <<>> /\ steady' = {}
  /\ answer' = NoAnswer
  /\ UNCHANGED <<world, handle>>

-----------------------------------------------------------------------------
(* open and read_bits *)

(* mutated: the descriptor says nothing of the fold *)
OpenedWithoutFold(family, selector, source, fold) ==
  /\ handle' = [source |-> source, fold |-> NoFold]
  /\ answer' = [call |-> "open", result |-> "ok", family |-> family,
                selector |-> selector]

Opened(family, selector, source, fold) ==
  /\ handle' = [source |-> source, fold |-> fold]
  /\ answer' = [call |-> "open", result |-> "ok", family |-> family,
                selector |-> selector]

Refused(family, selector, error) ==
  /\ answer' = [call |-> "open", result |-> KindOf(family, error),
                family |-> family, selector |-> selector]
  /\ UNCHANGED handle

(* mutated: without a selector, any of several *)
ResolveFirst(family, selector, source) ==
  /\ source \in Present(family)
  /\ selector \in {Unselected, source}

(* the library's open_by_serial or open_path, and open *)
Resolve(family, selector, source) ==
  \/ selector = source /\ source \in Present(family)
  \/ selector = Unselected /\ Present(family) = {source}

(* why the library finds no device to open *)
Unresolved(family, selector) ==
  IF selector # Unselected THEN "DeviceNotFound"
  ELSE IF Present(family) = {} THEN "NoDevice" ELSE "MultipleDevices"

OpenDevice(family, folds) ==
  \E selector \in DevicesOf(family) \cup {Unselected}, fold \in folds :
    \/ \E source \in Present(family) :
         /\ Resolve(family, selector, source)
         /\ \/ Opened(family, selector, source, fold)
            \/ \E error \in OpenErrors[family] : Refused(family, selector, error)
    \/ /\ \A source \in Present(family) : ~Resolve(family, selector, source)
       /\ Refused(family, selector, Unresolved(family, selector))

OpenSoft(family) ==
  \/ /\ family = "rdseed" => rdseed
     /\ Opened(family, Unselected, family, NoFold)
  \/ /\ family = "rdseed" /\ ~rdseed
     /\ Refused(family, Unselected, "UnsupportedInstruction")
  \/ \E error \in OpenErrors[family] : Refused(family, Unselected, error)

OpenBitb   == OpenDevice("bitb", 0 .. 4)
OpenTrng   == OpenDevice("trng", {NoFold})
OpenRdseed == OpenSoft("rdseed")
OpenPseudo == OpenSoft("pseudo")

(* registry::open: the family asked for, and no other *)
Open ==
  /\ step \in {"idle", "reported"}
  /\ handle = NoHandle
  /\ OpenBitb \/ OpenTrng \/ OpenRdseed \/ OpenPseudo
  /\ UNCHANGED <<world, report>>

ReadAnswer(size, result, bytes) ==
  [call |-> "read", result |-> result, size |-> size, bytes |-> bytes]

(* mutated: what came is what was asked for *)
EnforceNothing(size, bytes) == ReadAnswer(size, "ok", bytes)

EnforceLen(size, bytes) ==
  IF bytes = size \div 8 THEN ReadAnswer(size, "ok", bytes)
  ELSE ReadAnswer(size, "Protocol", 0)

(* a library may be a byte short; a device that is gone gives none *)
ReadBits ==
  /\ handle # NoHandle
  /\ LET family == FamilyOf(handle.source)
         there  == handle.source \in plugged \cup Soft
     IN  \E size \in Sizes :
           \/ there /\ \E bytes \in {size \div 8, (size \div 8) - 1} :
                         answer' = EnforceLen(size, bytes)
           \/ there /\ \E error \in ReadErrors[family] :
                         answer' = ReadAnswer(size, KindOf(family, error), 0)
           \/ ~there /\ answer' = ReadAnswer(size, KindOf(family, GoneErrors[family]), 0)
  /\ UNCHANGED <<world, report, handle>>

Close ==
  /\ handle # NoHandle
  /\ handle' = NoHandle /\ answer' = NoAnswer
  /\ UNCHANGED <<world, report>>

-----------------------------------------------------------------------------
(* Names.  All of these calls but the first depend on no other state: to     *)
(* make them only where nothing else goes on is a bound, no guard of the code. *)
Apart ==
  /\ answer = NoAnswer /\ step = "idle" /\ handle = NoHandle
  /\ plugged = {} /\ ~rdseed

Answered(a) ==
  /\ answer' = a
  /\ UNCHANGED <<world, report, handle>>

(* run_session names a session after the descriptor of its source *)
NameSession ==
  /\ handle # NoHandle
  /\ \E start \in Starts, bits \in Sizes, interval \in Intervals :
       LET stem == [start |-> start, source |-> Word(FamilyOf(handle.source)),
                    bits |-> bits, interval |-> interval, fold |-> handle.fold]
       IN  Answered([call |-> "session", result |-> RenderSession(stem), stem |-> stem])

(* a bundle is named after its inputs, or "mixed" *)
NameConcat ==
  /\ Apart
  /\ \E start \in Starts, family \in Families \cup {"mixed"}, bits \in Sizes,
     interval \in Intervals, fold \in 0 .. 4 :
    LET stem == [start |-> start, source |-> Word(family), bits |-> bits,
                 interval |-> interval, fold |-> IF family = "bitb" THEN fold ELSE NoFold]
    IN  Answered([call |-> "concat", result |-> RenderConcat(stem), stem |-> stem])

(* open_standalone looks at a name *)
ReadName ==
  /\ Apart
  /\ \E n \in 0 .. MaxTokens : \E head \in Heads, rest \in [1 .. n -> Tokens] :
    LET name == <<head>> \o rest
    IN  Answered([call |-> "parse", result |-> Dispatch(name), name |-> name])

(* a report looks for the offset of the clock: the session was named at      *)
(* UTC + offset, the first row is stamped delay later                        *)
InferOffset ==
  /\ Apart
  /\ \E offset \in Offsets, delay \in Delays, acquisition \in Acquisitions :
    Answered([call |-> "infer", result |-> Inferred(offset - delay, acquisition),
              offset |-> offset, delay |-> delay, acquisition |-> acquisition])

(* with a manifest, it is written there *)
RecordOffset ==
  /\ Apart
  /\ \E offset \in Offsets :
    Answered([call |-> "record", result |-> Parsed(Written(offset)), offset |-> offset])

Next ==
  \/ \E d \in Devices : Plug(d) \/ Unplug(d)
  \/ Discover \/ ListBitb \/ ListTrng \/ ListSoft \/ Forget
  \/ Open \/ ReadBits \/ Close
  \/ NameSession \/ NameConcat \/ ReadName \/ InferOffset \/ RecordOffset

Spec == Init /\ [][Next]_vars

-----------------------------------------------------------------------------
(* Properties *)

Kinds == {"NotAvailable", "MultipleDevices", "SelectionRequired", "DeviceNotFound",
          "PermissionDenied", "DeviceBusy", "Disconnected", "Timeout", "Protocol",
          "AllocationFailed", "EntropyUnavailable", "Unsupported", "InvalidRequest",
          "Other"}

(* The types of the devices and the report; a BitBabbler, and nothing else,  *)
(* is opened with a fold.                                                    *)
SourcesTypeOK ==
  /\ plugged \subseteq Devices /\ steady \subseteq plugged
  /\ rdseed \in BOOLEAN
  /\ step \in {"idle", "bitb", "trng", "soft", "reported"}
  /\ found \in Seq(Devices \cup Soft)
  /\ issues \in Seq([family : {"bitb", "trng"}, kind : Kinds])
  /\ \/ handle = NoHandle
     \/ handle \in [source : Bitbs, fold : 0 .. 4]
     \/ handle \in [source : Trngs \cup Soft, fold : {NoFold}]

Candidates(family) == {i \in DOMAIN found : FamilyOf(found[i]) = family}
Failed(family)     == {i \in DOMAIN issues : issues[i].family = family}

(* A report is silent about nothing: a device that was there all the time is *)
(* a candidate or its family has an issue, never both; what is no device is  *)
(* a candidate whatever failed before; and each candidate is listed once.    *)
ReportIsHonest ==
  step = "reported" =>
    /\ \A d \in steady : \/ \E i \in DOMAIN found : found[i] = d
                        \/ Failed(FamilyOf(d)) # {}
    /\ \A family \in Families : Failed(family) # {} => Candidates(family) = {}
    /\ found # <<>> /\ found[Len(found)] = "pseudo"
    /\ rdseed <=> \E i \in DOMAIN found : found[i] = "rdseed"
    /\ IsInjective(found)

(* The caller of open is told that a device is absent only if it is, and     *)
(* gets the one it named or the only one there is, and of the family named.  *)
OpenIsHonest ==
  answer.call = "open" =>
    /\ answer.result = "NotAvailable"   => Present(answer.family) = {}
    /\ answer.result = "DeviceNotFound" => answer.selector \notin plugged
    /\ answer.result = "ok" =>
         /\ FamilyOf(handle.source) = answer.family
         /\ answer.selector # Unselected => handle.source = answer.selector
         /\ answer.family \in {"bitb", "trng"} /\ answer.selector = Unselected =>
              Present(answer.family) = {handle.source}

(* A sample is whole, and read from a source that is there.                  *)
SampleIsWhole ==
  answer.call = "read" /\ answer.result = "ok" =>
    /\ answer.bytes * 8 = answer.size
    /\ handle.source \in plugged \cup Soft

(* Nothing is said of a source that is not so.                               *)
SourcesAreHonest == ReportIsHonest /\ OpenIsHonest /\ SampleIsWhole

(* The name of a session or a bundle is read back as what it was made of,    *)
(* and never by the reader of the other; no name at all has two readings;    *)
(* and a bundle has one name only.                                           *)
NamesReadBack ==
  /\ answer.call = "session" =>
       /\ Dispatch(answer.result) = "session"
       /\ StemOf(answer.result) = answer.stem
  /\ answer.call = "concat" =>
       /\ Dispatch(answer.result) = "concat"
       /\ ConcatStemOf(answer.result) = answer.stem
       /\ ~IsSession(answer.result)
  /\ answer.call = "parse" =>
       /\ ~(IsSession(answer.name) /\ IsConcat(answer.name))
       /\ answer.result = "concat" =>
            answer.name = RenderConcat(ConcatStemOf(answer.name))

(* a clock of today: quarter hours from UTC-12 to UTC+14 *)
IsZone(offset) ==
  -43200 <= offset /\ offset <= 50400 /\ offset % QuarterHour = 0

(* The offset inferred is that of the clock which named the session, or none *)
(* is, if the first row came within seven and a half minutes; one is, if it  *)
(* came within a minute or two seconds after it was read.  The manifest      *)
(* keeps the offset up to the minute.                                        *)
ClockIsTrueOrAbsent ==
  /\ answer.call = "infer" /\ IsZone(answer.offset) /\ answer.delay < 450 =>
       /\ answer.result \in {answer.offset, Unknown}
       /\ answer.delay <= 60 \/ answer.delay <= answer.acquisition + 2 =>
            answer.result = answer.offset
  /\ answer.call = "record" =>
       /\ Distance(answer.result, answer.offset) < 60
       /\ Distance(answer.result, 0) <= Distance(answer.offset, 0)

(* A name tells what it was made of, and when.                               *)
NamesAreTrue == NamesReadBack /\ ClockIsTrueOrAbsent

=============================================================================
