------------------------------ MODULE DeviceApi -----------------------------
(*********************************************************************************************)
(* The life of a device as nabto_device.c gives it to its user: it is made, configured,      *)
(* started, stopped and freed. One thread makes these calls, and configures before it starts *)
(* (nabto_device_start's documentation); memory may be short in each of them.                *)
(*                                                                                           *)
(* The record api:                                                                           *)
(*   life     "none", "new", "stopped", "freed", "leaked" or "crashed"                       *)
(*   productId, deviceId, serverUrl, privateKey, publicKey   strings, << >> for NULL         *)
(*   appName  the characters before the first 0                                              *)
(*   core     what nc_device_set_keys and nc_device_start got, << >> before that             *)
(*   answer   the code of the last call for the device's fingerprint                         *)
(*   given    what the user has been told is set (history)                                   *)
(*********************************************************************************************)
EXTENDS Integers, Sequences

CONSTANTS Ids, GoodKeys, BadKeys, AppNames

VARIABLE api

\* What is told apart of a string: a certificate names the key it is for, the default url its product.
Crt(key) == <<"crt">> \o key
DefaultUrl(id) == id \o <<".devices.nabto.net">>

Strings == {<<i>> : i \in Ids}
PrivateKeys == {<<k>> : k \in GoodKeys \cup BadKeys}
Urls == {<<"url">>} \cup {DefaultUrl(i) : i \in Strings}

ApiTypeOK ==
    /\ api.life \in {"none", "new", "stopped", "freed", "leaked", "crashed"}
    /\ api.productId \in Strings \cup {<< >>} /\ api.deviceId \in Strings \cup {<< >>}
    /\ api.serverUrl \in Urls \cup {<< >>} /\ api.privateKey \in PrivateKeys \cup {<< >>}
    /\ api.publicKey \in {Crt(k) : k \in PrivateKeys} \cup {<< >>}
    /\ api.core = << >> \/ api.core \in [productId : Strings, deviceId : Strings, url : Urls, key : PrivateKeys,
                                         crt : {Crt(k) : k \in PrivateKeys}, appName : {api.appName}]

ApiInit ==
    api = [life |-> "none", productId |-> << >>, deviceId |-> << >>, serverUrl |-> << >>, privateKey |-> << >>,
           publicKey |-> << >>, appName |-> << >>, core |-> << >>, answer |-> "OK",
           given |-> [productId |-> << >>, deviceId |-> << >>, serverUrl |-> << >>, privateKey |-> << >>]]

\* nabto_device_new_resolve_failure: the future queue is stopped, whose mutex there is only if
\* nabto_device_future_queue_init came to make it; its thread is joined, which may not run.
NewResolveFailure(at) == IF at = "thread" THEN {"freed", "crashed"} ELSE {"crashed"}

\* nabto_device_new: what each failing step leaves.
DeviceNew(fails) ==
    /\ api.life = "none"
    /\ \E life \in CASE fails = "nothing" -> {"new"}
                     [] fails = "memory" -> {"none"}
                     [] fails = "platform" -> {"leaked"}
                     [] OTHER -> NewResolveFailure(fails) :
          api' = [api EXCEPT !.life = life]

\* The user configures a device that is not started.
Configurable == api.life = "new" /\ api.core = << >>

\* strdup.
Strdup(str, memory) == IF memory THEN str ELSE << >>

\* nabto_device_set_product_id: the old string is gone also if there is no new one.
SetProductId(str, memory) ==
    /\ Configurable
    /\ api' = [api EXCEPT !.productId = Strdup(str, memory), !.given.productId = Strdup(str, memory)]

\* nabto_device_set_device_id.
SetDeviceId(str, memory) ==
    /\ Configurable
    /\ api' = [api EXCEPT !.deviceId = Strdup(str, memory), !.given.deviceId = Strdup(str, memory)]

\* nabto_device_set_server_url.
SetServerUrl(str, memory) ==
    /\ Configurable
    /\ api' = [api EXCEPT !.serverUrl = Strdup(str, memory), !.given.serverUrl = Strdup(str, memory)]

\* nm_dtls_create_crt_from_private_key: the certificate and the code; a key that cannot be read and a step
\* of mbedtls that fails give none, and the writing of the certificate fails with the code false, NABTO_EC_OK.
CreateCrt(key, step) ==
    CASE key[1] \in BadKeys \/ step = "fails" -> [crt |-> << >>, ec |-> "UNKNOWN"]
      [] step = "unwritten" -> [crt |-> << >>, ec |-> "OK"]
      [] OTHER -> [crt |-> Crt(key), ec |-> "OK"]

\* Mutant of SetPrivateKey: the certificate is replaced when there is a new one.
SetPrivateKeyKeepsCrt(str, memory, step) ==
    /\ Configurable
    /\ LET made == CreateCrt(str, step) IN
       api' = IF ~memory THEN [api EXCEPT !.privateKey = << >>, !.given.privateKey = << >>]
              ELSE [api EXCEPT !.privateKey = str, !.publicKey = IF made.crt = << >> THEN @ ELSE made.crt,
                               !.given.privateKey = IF made.ec = "OK" THEN str ELSE << >>]

\* nabto_device_set_private_key: without memory for the key the old certificate stays.
SetPrivateKey(str, memory, step) ==
    /\ Configurable
    /\ LET made == CreateCrt(str, step) IN
       api' = IF ~memory THEN [api EXCEPT !.privateKey = << >>, !.given.privateKey = << >>]
              ELSE [api EXCEPT !.privateKey = str, !.publicKey = made.crt,
                               !.given.privateKey = IF made.ec = "OK" THEN str ELSE << >>]

\* nabto_device_set_app_name: the characters are copied, the 0 after them is not.
SetAppName(name) ==
    /\ Configurable
    /\ api' = [api EXCEPT !.appName = name \o SubSeq(@, Len(name) + 1, Len(@))]

\* nc_device_set_keys and nc_device_start.
CoreStarted(url) ==
    [productId |-> api.productId, deviceId |-> api.deviceId, url |-> url, key |-> api.privateKey,
     crt |-> api.publicKey, appName |-> api.appName]

\* nabto_device_start; it may be called again, which starts the core again with what it has.
DeviceStart(memory) ==
    /\ api.life = "new"
    /\ LET url == IF api.serverUrl = << >> THEN DefaultUrl(api.productId) ELSE api.serverUrl IN
       api' = IF << >> \in {api.publicKey, api.privateKey, api.deviceId, api.productId} THEN api
              ELSE IF api.serverUrl = << >> /\ ~memory THEN api
              ELSE [api EXCEPT !.serverUrl = url, !.core = CoreStarted(url)]

\* nm_dtls_get_fingerprint_from_private_key, for a string that is there.
FingerprintEc(key, step) == IF key[1] \in BadKeys \/ step = "fails" THEN "UNKNOWN" ELSE "OK"

\* nabto_device_get_device_fingerprint_hex and _full_hex: the code for a key that is missing is
\* overwritten, and strlen reads through NULL.
GetDeviceFingerprint(step) ==
    /\ api.life = "new"
    /\ api' = IF api.privateKey = << >> THEN [api EXCEPT !.life = "crashed"]
              ELSE [api EXCEPT !.answer = FingerprintEc(api.privateKey, step)]

\* nabto_device_stop: once.
DeviceStop == api.life = "new" /\ api' = [api EXCEPT !.life = "stopped"]

\* nabto_device_free: stops, and frees what was set.
DeviceFree ==
    /\ api.life \in {"new", "stopped"}
    /\ api' = [api EXCEPT !.life = "freed", !.productId = << >>, !.deviceId = << >>, !.serverUrl = << >>,
                          !.publicKey = << >>, !.privateKey = << >>]

ApiNext ==
    \/ \E fails \in {"nothing", "memory", "mutex", "platform", "core", "tunnels", "queue", "thread"} : DeviceNew(fails)
    \/ \E memory \in BOOLEAN :
          \/ \E id \in Strings : SetProductId(id, memory) \/ SetDeviceId(id, memory)
          \/ SetServerUrl(<<"url">>, memory) \/ DeviceStart(memory)
          \/ \E key \in PrivateKeys, step \in {"done", "unwritten", "fails"} : SetPrivateKey(key, memory, step)
    \/ \E name \in AppNames : SetAppName(name)
    \/ \E step \in {"done", "fails"} : GetDeviceFingerprint(step)
    \/ DeviceStop \/ DeviceFree

\* A core that has been started has what the user was told is set: the ids, a private key with the
\* certificate of that same key, and the user's url or the default one of the product it is started
\* with. Sets that failed halfway, refused starts and changed minds before it leave nothing behind.
StartedAsConfigured ==
    /\ ApiTypeOK
    /\ api.core # << >> =>
      /\ api.core.productId = api.given.productId /\ api.core.deviceId = api.given.deviceId
      /\ api.core.key = api.given.privateKey /\ api.core.crt = Crt(api.core.key)
      /\ api.core.url = IF api.given.serverUrl = << >> THEN DefaultUrl(api.core.productId) ELSE api.given.serverUrl
=============================================================================
