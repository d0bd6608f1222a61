--------------------------------- MODULE Iam ---------------------------------
(*******************************************************************************)
(* The identity and access management module (modules/iam) inside the tcp      *)
(* tunnel application: users that pair, get roles and are deleted through CoAP *)
(* requests, each decided by the policies of the roles of its user, and the    *)
(* state file the application rewrites on every change and reads when it is    *)
(* started again. The requests are handled one at a time, on the thread of the *)
(* future queue; the application may be killed at any time, a file being       *)
(* written included.                                                           *)
(*******************************************************************************)
EXTENDS Policies

CONSTANTS
    Clients,                \* fingerprints of clients
    MaxPairings,            \* users that are created
    MaxStarts               \* times the application is started

ASSUME PairingsAssumption == MaxPairings \in Nat /\ MaxStarts \in Nat

VARIABLE iam

Files == {"iam", "state", "services", "key"}

NoUser == [id |-> 0, fingerprint |-> "nobody", roles |-> {}, sct |-> 0]

Users == [id: 1..MaxPairings, fingerprint: Clients, roles: SUBSET {"Admin", "User"}, sct: 1..MaxPairings]

\* uint16_t.
Ports == 0..65535

(***************************************************************************)
(*   run     the process: off, up, or failed to start                       *)
(*   users, roles, policies   the vectors of nm_iam                         *)
(*   tokens  server connect tokens the device has been given                 *)
(*   notify  changeCallbacks.userChanged is set                             *)
(*   file    content of the files: none, torn, or what was written           *)
(*   code    the last response                                             *)
(* created counts pairings, last is the users when the application last ran,     *)
(* and lost tells that a save of the state was cut short: history.             *)
(***************************************************************************)
IamTypeOK ==
    /\ iam.run \in {"off", "up", "failed"} /\ iam.starts \in 0..MaxStarts
    /\ iam.users \in Seq(Users) /\ iam.services \in Seq([id: {"ssh"}, port: Ports]) /\ iam.tokens \subseteq 0..MaxPairings
    /\ iam.notify \in BOOLEAN /\ iam.lost \in BOOLEAN /\ iam.created \in 0..MaxPairings
    /\ DOMAIN iam.file = Files /\ iam.last \in Seq(Users)
    /\ iam.code \in {0, 201, 202, 205, 400, 401, 403, 404, 500}

(***************************************************************************)
(* Roles and policies: the default configuration of the application, and one     *)
(* an administrator wrote, in which administrators manage the other users.        *)
(***************************************************************************)
\* nm_policy_new, nm_statement_new and nm_statement_add_action.
PolicyNew(id, actions) ==
    [id |-> id, statements |-> <<[effect |-> "ALLOW", actions |-> actions, conditions |-> << >>]>>]

\* nm_iam_role_new, nm_iam_role_add_policy.
RoleNew(id, policies) == [id |-> id, policies |-> policies]

\* nm_iam_role_to_json, nm_iam_role_from_json.
RoleToJson(role) == [Id |-> role.id, Policies |-> StringSetToJson(role.policies)]

RoleFromJson(json) ==
    IF ~{"Id", "Policies"} \subseteq DOMAIN json THEN Null
    ELSE RoleNew(json.Id, InsertAll(json.Policies))

ConfigToJson(policies, roles) ==
    [is |-> "json", Policies |-> [i \in DOMAIN policies |-> PolicyToJson(policies[i])],
     Roles |-> [i \in DOMAIN roles |-> RoleToJson(roles[i])]]

DefaultPolicies ==
    <<PolicyNew("PasswordPairing", <<"Pairing:Get", "Pairing:Password">>),
      PolicyNew("LocalPairing", <<"Pairing:Get", "Pairing:Local">>),
      PolicyNew("TunnelAll", <<"TcpTunnel:GetService", "TcpTunnel:Connect", "TcpTunnel:ListServices">>),
      PolicyNew("Paired", <<"Pairing:Get">>)>>

\* create_default_iam_config.
DefaultIamConfig ==
    ConfigToJson(DefaultPolicies,
                 <<RoleNew("Unpaired", <<"PasswordPairing", "LocalPairing">>),
                   RoleNew("Admin", <<"TunnelAll", "Paired">>), RoleNew("User", <<"TunnelAll", "Paired">>)>>)

OwnUser == [op |-> 1, key |-> "IAM:UserId",
            values |-> <<[variable |-> TRUE, text |-> "Connection:UserId"]>>]

ManagedIamConfig ==
    ConfigToJson(
        Append(DefaultPolicies,
               [id |-> "Manage", statements |->
                  <<PolicyNew("", <<"IAM:ListUsers", "IAM:ListRoles", "IAM:GetUser", "IAM:DeleteUser",
                                    "IAM:AddRoleToUser", "IAM:RemoveRoleFromUser">>).statements[1],
                    [effect |-> "DENY", actions |-> <<"IAM:DeleteUser">>, conditions |-> <<OwnUser>>]>>]),
        <<RoleNew("Unpaired", <<"PasswordPairing", "LocalPairing">>),
          RoleNew("Admin", <<"TunnelAll", "Paired", "Manage">>), RoleNew("User", <<"TunnelAll", "Paired">>)>>)

IamInit ==
    \E config \in {[is |-> "none"], ManagedIamConfig} :
        iam = [run |-> "off", starts |-> 0, users |-> << >>, roles |-> << >>, policies |-> << >>,
               services |-> << >>, tokens |-> {}, notify |-> FALSE, code |-> 0, created |-> 0,
               file |-> [f \in Files |-> IF f = "iam" THEN config ELSE [is |-> "none"]],
               last |-> << >>, lost |-> FALSE]

\* nm_iam_find_role, nm_iam_find_policy, nm_iam_find_user_by_fingerprint,
\* nm_iam_find_user_by_id: the first entry, if any.
FindRole(s, id) == {s.roles[i] : i \in {j \in DOMAIN s.roles : s.roles[j].id = id}}

FindPolicy(s, id) == CHOOSE p \in {s.policies[i] : i \in DOMAIN s.policies} : p.id = id

FirstUser(users, at) ==
    IF at = {} THEN NoUser ELSE users[CHOOSE i \in at : \A j \in at : i <= j]

FindUserByFingerprint(users, fp) == FirstUser(users, {i \in DOMAIN users : users[i].fingerprint = fp})

FindUserById(users, id) == FirstUser(users, {i \in DOMAIN users : users[i].id = id})

\* nm_iam_check_access_role.
CheckAccessRole(s, role, action, attributes) ==
    LET after[i \in 0..Len(role.policies)] ==
            IF i = 0 THEN PolicyEvalInit
            ELSE PolicyEval(after[i - 1], FindPolicy(s, role.policies[i]), action, attributes)
    IN  after[Len(role.policies)]

\* nm_iam_check_access_user: a role that is not there, denies or fails decides.
CheckAccessUser(s, user, action, attributes) ==
    LET effects == UNION {IF FindRole(s, id) = {} THEN {"ERROR"}
                          ELSE {CheckAccessRole(s, role, action, attributes) : role \in FindRole(s, id)} :
                            id \in user.roles}
    IN  IF effects \cap {"ERROR", "DENY"} # {} THEN "DENY"
        ELSE IF "ALLOW" \in effects THEN "ALLOW" ELSE "NO_MATCH"

\* nm_iam_check_access; fp is "gone" when the connection is no more.
CheckAccess(s, fp, action, attributesIn) ==
    /\ fp # "gone"
    /\ \E user \in {FindUserByFingerprint(s.users, fp)} :
         IF user = NoUser
         THEN \E unpaired \in FindRole(s, "Unpaired") : CheckAccessRole(s, unpaired, action, attributesIn) = "ALLOW"
         ELSE \E attributes \in {[k \in DOMAIN attributesIn \cup {"Connection:UserId"} |->
                                   IF k = "Connection:UserId" THEN user.id ELSE attributesIn[k]]} :
                CheckAccessUser(s, user, action, attributes) = "ALLOW"

(***************************************************************************)
(* The files.                                                              *)
(***************************************************************************)
\* nm_iam_user_to_json and nm_iam_user_from_json: no field for what a user lacks.
UserToJson(u) ==
    LET bare == [Id |-> u.id, Fingerprint |-> u.fingerprint, ServerConnectToken |-> u.sct] IN
    IF u.roles = {} THEN bare
    ELSE [Id |-> u.id, Fingerprint |-> u.fingerprint, ServerConnectToken |-> u.sct, Roles |-> u.roles]

UserFromJson(j) ==
    [id |-> j.Id, fingerprint |-> j.Fingerprint, sct |-> j.ServerConnectToken,
     roles |-> IF "Roles" \in DOMAIN j THEN j.Roles ELSE {}]

\* write_state_to_file, with json_config_save: opening the file empties it, so a save
\* that is cut short (how = "cut") leaves no JSON; one that cannot open it, the old.
WriteStateToFile(s, users, how) ==
    [s EXCEPT !.file["state"] =
                 CASE how = "ok" -> [is |-> "json", users |-> [i \in DOMAIN users |-> UserToJson(users[i])]]
                   [] how = "cut" -> [is |-> "torn"]
                   [] how = "unopened" -> @,
              !.lost = @ \/ how # "ok"]

\* iam_user_changed: what find_user gives for every id is saved, in the order of the ids
\* (a set) rather than of the users.
IamUserChanged(s, how) ==
    IF ~s.notify THEN s
    ELSE LET ids == {s.users[i].id : i \in DOMAIN s.users}
             rank(id) == Cardinality({x \in ids : x <= id})
             saved == [n \in 1..Cardinality(ids) |->
                         FindUserById(s.users, CHOOSE id \in ids : rank(id) = n)]
         IN  WriteStateToFile(s, saved, how)

(***************************************************************************)
(* Operations on users.                                                    *)
(***************************************************************************)
\* nm_iam_next_user_id: the first number that is no id.
NextUserId(users) ==
    CHOOSE n \in 1..(Len(users) + 1) :
        FindUserById(users, n) = NoUser /\ \A k \in 1..(n - 1) : FindUserById(users, k) # NoUser

\* nm_iam_add_user.
AddUser(s, user, how) ==
    IamUserChanged([s EXCEPT !.users = Append(@, user), !.tokens = @ \cup {user.sct}], how)

\* nm_iam_pair_new_client: the first user is the administrator.
PairNewClient(s, fp, how) ==
    IF FindUserByFingerprint(s.users, fp) # NoUser THEN [s EXCEPT !.code = 201]
    ELSE IF s.created = MaxPairings THEN [s EXCEPT !.code = 500]
    ELSE [AddUser([s EXCEPT !.created = @ + 1],
                  [id |-> NextUserId(s.users), fingerprint |-> fp, sct |-> s.created + 1,
                   roles |-> IF s.users = << >> THEN {"Admin"} ELSE {"User"}], how)
            EXCEPT !.code = 201]

\* nm_iam_delete_user: the first user with the id.
DeleteUser(s, id, how) ==
    LET at == {i \in DOMAIN s.users : s.users[i].id = id} IN
    IF at = {} THEN s
    ELSE LET i == CHOOSE j \in at : \A k \in at : j <= k IN
         IamUserChanged([s EXCEPT !.users = SubSeq(@, 1, i - 1) \o SubSeq(@, i + 1, Len(@))], how)

\* nm_iam_user_add_role, nm_iam_user_remove_role on the first user with the id.
WithRoles(s, id, roles) ==
    [s EXCEPT !.users = [i \in DOMAIN s.users |->
                           IF s.users[i].id = id THEN [s.users[i] EXCEPT !.roles = roles] ELSE s.users[i]]]

\* Mutant of RemoveRoleFromUser: the change is not reported.
RemoveRoleFromUserQuiet(s, id, role, how) ==
    LET user == FindUserById(s.users, id) IN
    IF user = NoUser THEN s ELSE WithRoles(s, id, user.roles \ {role})

\* nm_iam_remove_role_from_user.
RemoveRoleFromUser(s, id, role, how) ==
    LET user == FindUserById(s.users, id) IN
    IF user = NoUser THEN s
    ELSE IamUserChanged(WithRoles(s, id, user.roles \ {role}), how)

\* nm_iam_add_role_to_user.
AddRoleToUser(s, id, role, how) ==
    LET user == FindUserById(s.users, id) IN
    IF user = NoUser \/ FindRole(s, role) = {} THEN [s EXCEPT !.code = 404]
    ELSE [IamUserChanged(WithRoles(s, id, user.roles \cup {role}), how) EXCEPT !.code = 201]

(***************************************************************************)
(* The CoAP resources: handle_request of each file of modules/iam. Every        *)
(* handler asks nm_iam_check_access first: granted is the answer. The           *)
(* fingerprint of a connection that is no more is "gone".                       *)
(***************************************************************************)
Code(s, code) == [s EXCEPT !.code = code]

PairingLocal(s, granted, fp, local, readable, how) ==
    IF ~granted \/ ~local THEN Code(s, 403)
    ELSE IF ~readable THEN Code(s, 400) ELSE PairNewClient(s, fp, how)

PairingPassword(s, granted, fp, right, readable, how) ==
    IF ~granted THEN Code(s, 403)
    ELSE IF ~readable THEN Code(s, 400)
    ELSE IF ~right THEN Code(s, 401) ELSE PairNewClient(s, fp, how)

PairingGet(s, granted) == Code(s, IF granted THEN 205 ELSE 403)

IsPaired(s, granted, fp) ==
    Code(s, IF granted /\ FindUserByFingerprint(s.users, fp) # NoUser THEN 205 ELSE 403)

ClientSettings(s, granted, fp) ==
    IF ~granted THEN Code(s, 403)
    ELSE Code(s, IF FindUserByFingerprint(s.users, fp) = NoUser THEN 403 ELSE 205)

ListUsers(s, granted) == Code(s, IF granted THEN 205 ELSE 403)

ListRoles(s, granted) == Code(s, IF granted THEN 205 ELSE 403)

GetUser(s, granted, id) ==
    IF ~granted THEN Code(s, 403)
    ELSE Code(s, IF FindUserById(s.users, id) = NoUser THEN 404 ELSE 205)

HandleDeleteUser(s, granted, id, how) ==
    IF ~granted THEN Code(s, 403) ELSE Code(DeleteUser(s, id, how), 202)

HandleRemoveRole(s, granted, id, role, how) ==
    IF ~granted THEN Code(s, 403) ELSE Code(RemoveRoleFromUser(s, id, role, how), 202)

HandleAddRole(s, granted, id, role, how) ==
    IF ~granted THEN Code(s, 403) ELSE AddRoleToUser(s, id, role, how)

\* The handle_request of the authorization listener: the verdict on an access to a tunnel.
HandleAuthorization(s, granted) == Code(s, IF granted THEN 201 ELSE 403)

\* The actions the handlers ask for, and the attributes they give with them.
AttributesOf(action) ==
    CASE action \in {"IAM:GetUser", "IAM:DeleteUser"} -> [{"IAM:UserId"} -> 1..MaxPairings]
      [] action \in {"IAM:AddRoleToUser", "IAM:RemoveRoleFromUser"} ->
           {[k \in {"IAM:UserId", "IAM:RoleId"} |-> IF k = "IAM:UserId" THEN id ELSE role] :
              id \in 1..MaxPairings, role \in {"Admin", "User", "Owner"}}
      [] OTHER -> [{} -> {}]

Asked ==
    {"Pairing:Get", "Pairing:Local", "Pairing:Password", "TcpTunnel:Connect", "IAM:ListUsers",
     "IAM:ListRoles", "IAM:GetUser", "IAM:DeleteUser", "IAM:AddRoleToUser", "IAM:RemoveRoleFromUser"}

Saves == {"ok", "unopened", "cut"}

\* request_callback calls the handler; then start_listen listens for the next request.
RequestCallback(s) ==
    /\ iam.run = "up" /\ iam.code = 0
    /\ \E answered \in {s} : iam' = [answered EXCEPT !.last = answered.users]

StartListen ==
    /\ iam.run = "up" /\ iam.code # 0
    /\ iam' = [iam EXCEPT !.code = 0]

Reads(action, granted, fp, attributes) ==
    \/ action = "Pairing:Get" /\ RequestCallback(PairingGet(iam, granted))
    \/ action = "Pairing:Get" /\ RequestCallback(IsPaired(iam, granted, fp))
    \/ action = "Pairing:Get" /\ RequestCallback(ClientSettings(iam, granted, fp))
    \/ action = "TcpTunnel:Connect" /\ RequestCallback(HandleAuthorization(iam, granted))
    \/ action = "IAM:ListUsers" /\ RequestCallback(ListUsers(iam, granted))
    \/ action = "IAM:ListRoles" /\ RequestCallback(ListRoles(iam, granted))
    \/ action = "IAM:GetUser" /\ RequestCallback(GetUser(iam, granted, attributes["IAM:UserId"]))

Changes(action, granted, fp, attributes, how) ==
    \/ /\ action = "Pairing:Local"
       /\ \E local, readable \in BOOLEAN : RequestCallback(PairingLocal(iam, granted, fp, local, readable, how))
    \/ /\ action = "Pairing:Password"
       /\ \E right, readable \in BOOLEAN : RequestCallback(PairingPassword(iam, granted, fp, right, readable, how))
    \/ /\ action = "IAM:DeleteUser"
       /\ RequestCallback(HandleDeleteUser(iam, granted, attributes["IAM:UserId"], how))
    \/ /\ action = "IAM:RemoveRoleFromUser"
       /\ RequestCallback(HandleRemoveRole(iam, granted, attributes["IAM:UserId"], attributes["IAM:RoleId"], how))
    \/ /\ action = "IAM:AddRoleToUser"
       /\ RequestCallback(HandleAddRole(iam, granted, attributes["IAM:UserId"], attributes["IAM:RoleId"], how))

Request ==
    /\ iam.run = "up" /\ iam.code = 0
    /\ \E fp \in Clients \cup {"gone"}, action \in Asked : \E attributes \in AttributesOf(action) :
         \E granted \in {CheckAccess(iam, fp, action, attributes)} :
            \/ Reads(action, granted, fp, attributes)
            \/ \E how \in Saves : Changes(action, granted, fp, attributes, how)

(***************************************************************************)
(* The application: main, and what it reads and writes.                     *)
(***************************************************************************)
\* json_config_save and string_file_save of a new file, cut short if the application is
\* killed in it.
SaveFile(s, f, content, cutAt) ==
    [s EXCEPT !.file[f] = IF f = cutAt THEN [is |-> "torn"] ELSE content]

\* json_config_exists, string_file_exists.
Exists(s, f) == s.file[f].is # "none"

\* json_config_load and string_file_load: a file that is cut short does not parse, and
\* a program that cannot load a file ends. What it reads makes its state s into read.
LoadFile(s, f, read) ==
    IF s.run = "failed" THEN s
    ELSE IF s.file[f].is = "torn" THEN [s EXCEPT !.run = "failed"] ELSE read

ReadIamConfig(s) ==
    LET policies == [i \in DOMAIN s.file["iam"].Policies |-> PolicyFromJson(s.file["iam"].Policies[i])]
        roles == [i \in DOMAIN s.file["iam"].Roles |-> RoleFromJson(s.file["iam"].Roles[i])]
    IN  IF (\E i \in DOMAIN policies : policies[i] = Null) \/ \E i \in DOMAIN roles : roles[i] = Null
        THEN [s EXCEPT !.run = "failed"]
        ELSE [s EXCEPT !.policies = policies, !.roles = roles]

\* load_iam_config.
LoadIamConfig(s, cutAt) ==
    LET t == IF Exists(s, "iam") THEN s ELSE SaveFile(s, "iam", DefaultIamConfig, cutAt)
    IN  LoadFile(t, "iam", ReadIamConfig(t))

\* create_default_tcp_tunnel_state.
DefaultState == [is |-> "json", users |-> << >>]

\* The users of the state, and the loop of handle_main over nm_iam_add_user.
ReadState(s) ==
    LET users == [i \in DOMAIN s.file["state"].users |-> UserFromJson(s.file["state"].users[i])] IN
    [s EXCEPT !.users = users, !.tokens = {0} \cup {users[i].sct : i \in DOMAIN users}]

\* load_tcp_tunnel_state.
LoadTcpTunnelState(s, cutAt) ==
    LET t == IF Exists(s, "state") \/ s.run = "failed" THEN s
             ELSE SaveFile(s, "state", DefaultState, cutAt)
    IN  LoadFile(t, "state", ReadState(t))

\* service_as_json, service_from_json: a port is a number in the file, 16 bits here.
ServiceAsJson(service) == [Id |-> service.id, Port |-> service.port]

ServiceFromJson(json) ==
    IF ~{"Id", "Port"} \subseteq DOMAIN json THEN Null ELSE [id |-> json.Id, port |-> json.Port % 65536]

\* create_default_services_file.
DefaultServices == [is |-> "json", services |-> <<ServiceAsJson([id |-> "ssh", port |-> 22])>>]

\* load_services_from_json.
ReadServices(s) ==
    LET services == [i \in DOMAIN s.file["services"].services |->
                       ServiceFromJson(s.file["services"].services[i])] IN
    IF \E i \in DOMAIN services : services[i] = Null THEN [s EXCEPT !.run = "failed"]
    ELSE [s EXCEPT !.services = services]

\* load_tcp_tunnel_services.
LoadTcpTunnelServices(s, cutAt) ==
    LET t == IF Exists(s, "services") \/ s.run = "failed" THEN s
             ELSE SaveFile(s, "services", DefaultServices, cutAt)
    IN  LoadFile(t, "services", ReadServices(t))

\* create_private_key.
NewPrivateKey == [is |-> "key"]

\* load_or_create_private_key: nabto_device_set_private_key takes a whole key only.
LoadOrCreatePrivateKey(s, cutAt) ==
    LET t == IF Exists(s, "key") \/ s.run = "failed" THEN s
             ELSE SaveFile(s, "key", NewPrivateKey, cutAt)
    IN  LoadFile(t, "key", t)

\* handle_main up to nabto_device_start: the callback is set last, so that loading does
\* not save. Killed while it creates the file cutAt, the application leaves it torn.
HandleMain(cutAt) ==
    /\ iam.run # "up" /\ iam.starts < MaxStarts
    /\ \E config \in {LoadIamConfig([iam EXCEPT !.run = "off", !.starts = @ + 1, !.notify = FALSE], cutAt)} :
       \E state \in {LoadTcpTunnelState(config, cutAt)} :
       \E services \in {LoadTcpTunnelServices(state, cutAt)} :
       \E loaded \in {LoadOrCreatePrivateKey(services, cutAt)} :
         iam' = IF loaded.run = "failed" THEN loaded
                ELSE [loaded EXCEPT !.run = "up", !.notify = TRUE, !.last = IF iam.lost THEN loaded.users ELSE @]

\* The application is stopped (signal_handler and the end of handle_main) or killed.
Killed ==
    /\ iam.run = "up"
    /\ iam' = [iam EXCEPT !.run = "off", !.users = << >>, !.roles = << >>, !.policies = << >>,
                          !.services = << >>, !.tokens = {}, !.notify = FALSE, !.code = 0]

IamNext == Request \/ StartListen \/ (\E cutAt \in Files \cup {"none"} : HandleMain(cutAt)) \/ Killed

\* No two users have one id or one fingerprint, so that the roles of a client are those
\* of a single user (nm_iam_pair_new_client, nm_iam_next_user_id); also after users
\* were deleted and ids given again, and after a restart from the state file.
OneUserPerClient ==
    \A i, j \in DOMAIN iam.users :
        i # j => /\ iam.users[i].id # iam.users[j].id
                 /\ iam.users[i].fingerprint # iam.users[j].fingerprint

\* A restart brings back every user as it was, with its roles, and tells the device its
\* server connect token, unless a save of the state was cut short or could not open
\* the file, both of which write_state_to_file hides from its callers; and at all times a
\* client is a single user (OneUserPerClient).
UsersSurvive ==
    /\ IamTypeOK /\ OneUserPerClient
    /\ iam.run = "up" /\ ~iam.lost =>
         /\ {iam.users[i] : i \in DOMAIN iam.users} = {iam.last[i] : i \in DOMAIN iam.last}
         /\ \A i \in DOMAIN iam.users : iam.users[i].sct \in iam.tokens
=============================================================================
