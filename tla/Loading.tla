------------------------------- MODULE Loading -------------------------------
(***************************************************************************)
(* Choices made when a model is loaded: the device (core crate,            *)
(* runtime.rs), the adapter (models crate, lib.rs) and, once per process,  *)
(* the number of decoding threads (threading.rs).                          *)
(***************************************************************************)
EXTENDS Naturals

Preference == {"auto", "cpu", "cuda", "metal"}

(* RuntimeDevice::select: an accelerator must be compiled in and present;  *)
(* auto takes the best of those, and the CPU if there is none.             *)
Select(preference, accelerators) ==
    CASE preference = "cpu" -> "cpu"
      [] preference \in {"cuda", "metal"} ->
            IF preference \in accelerators THEN preference ELSE "unavailable"
      [] preference = "auto" ->
            IF "cuda" \in accelerators THEN "cuda"
            ELSE IF "metal" \in accelerators THEN "metal" ELSE "cpu"

(* load_gguf_decoder: the adapter registered for an architecture, whose    *)
(* name has been put in lower case.                                        *)
Adapter(architecture) ==
    CASE architecture \in {"llama", "llama2", "llama3", "llama-gguf",
                           "mistral", "mixtral"} -> "LlamaGgufDecoder"
      [] architecture \in {"qwen3", "qwen3-gguf"} -> "Qwen3GgufDecoder"
      [] OTHER -> "unsupported"

(* CANDLE_NUM_THREADS after apply_decode_thread_default: what the user set *)
(* (`unset` if nothing), or all but 4 cores of a CPU that has 12 or more.  *)
DecodeThreads(setting, unset, physical) ==
    IF setting = unset /\ physical >= 12 THEN physical - 4 ELSE setting
=============================================================================
