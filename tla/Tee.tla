-------------------------------- MODULE Tee ---------------------------------
(***************************************************************************)
(* Detection of trusted execution environments (src/src/tee/mod.rs and       *)
(* src/src/tee/x86_64.rs): pure functions of the host.                      *)
(*                                                                         *)
(* A host is what the build target and the machine fix: architecture, OS,    *)
(* CPU vendor, the highest standard and extended CPUID leaf, the features    *)
(* the machine has, what a leaf above the highest one reads as, and what     *)
(* the DMI vendor file holds.                                               *)
(***************************************************************************)
EXTENDS Naturals

CpuFeatures == {"sgx", "tdx", "sev", "sev_snp"}

Capabilities == CpuFeatures \cup {"trustzone", "secure_enclave", "nitro"}

Detections == {"Detected", "NotDetected", "Unknown"}

\* TeeCapabilities.
Reports == [Capabilities -> Detections]

Confirm(found) == IF found THEN "Detected" ELSE "NotDetected"

\* The bit or signature of a feature; a leaf the CPU does not have reads as junk.
cpuid(h, feature, leaf, max) == IF leaf <= max THEN feature \in h.features ELSE h.junk

\* The leaf is read on any CPU.
detect_sgx_Unbounded(h) == Confirm(cpuid(h, "sgx", 7, h.standard_max))

detect_sgx(h) ==
  IF h.standard_max < 7 THEN "NotDetected" ELSE Confirm(cpuid(h, "sgx", 7, h.standard_max))

detect_tdx(h) ==
  IF h.vendor # "GenuineIntel" \/ h.standard_max < 33 THEN "NotDetected"
  ELSE Confirm(cpuid(h, "tdx", 33, h.standard_max))

\* Both SEV fields, from the extended leaf 0x8000001f.
detect_sev(h, feature) ==
  IF h.vendor # "AuthenticAMD" \/ h.extended_max < 31 THEN "NotDetected"
  ELSE Confirm(cpuid(h, feature, 31, h.extended_max))

detect_x86_64(h, feature) ==
  IF h.arch # "x86_64" THEN "Unknown"
  ELSE CASE feature = "sgx" -> detect_sgx(h)
         [] feature = "tdx" -> detect_tdx(h)
         [] OTHER -> detect_sev(h, feature)

\* No userspace probe exists.
detect_trustzone(h) == "Unknown"

detect_secure_enclave(h) ==
  IF h.os = "macos" THEN Confirm(h.arch = "aarch64") ELSE "Unknown"

detect_nitro(h) ==
  IF h.os # "linux" \/ h.dmi = "unreadable" THEN "Unknown" ELSE Confirm(h.dmi = "Amazon EC2")

detect_tee_capabilities(h) ==
  [c \in Capabilities |->
     CASE c \in CpuFeatures -> detect_x86_64(h, c)
       [] c = "trustzone" -> detect_trustzone(h)
       [] c = "secure_enclave" -> detect_secure_enclave(h)
       [] c = "nitro" -> detect_nitro(h)]

any_detected(report) == \E c \in Capabilities : report[c] = "Detected"

-----------------------------------------------------------------------------
(* Machines.                                                               *)

\* A CPU has a feature only with its vendor's leaf for it.
RealCpu(h) ==
  /\ "sgx" \in h.features => h.vendor = "GenuineIntel" /\ h.standard_max >= 7
  /\ "tdx" \in h.features => h.vendor = "GenuineIntel" /\ h.standard_max >= 33
  /\ {"sev", "sev_snp"} \cap h.features # {} => h.vendor = "AuthenticAMD" /\ h.extended_max >= 31
  /\ h.arch # "x86_64" => h.features = {}

Hosts ==
  {h \in [arch : {"x86_64", "aarch64"}, os : {"linux", "macos", "other"},
          vendor : {"GenuineIntel", "AuthenticAMD", "other"},
          standard_max : {6, 7, 33}, extended_max : {8, 31},
          features : SUBSET CpuFeatures, junk : BOOLEAN,
          dmi : {"Amazon EC2", "other", "unreadable"}] : RealCpu(h)}

\* The machine has the capability.  (The T2 chip of an Intel Mac, which the code says it
\* cannot see and reports as not detected, is not counted.)
Has(h, c) ==
  CASE c \in CpuFeatures -> c \in h.features
    [] c = "secure_enclave" -> h.os = "macos" /\ h.arch = "aarch64"
    [] c = "nitro" -> h.os = "linux" /\ h.dmi = "Amazon EC2"
    [] OTHER -> FALSE
=============================================================================
