---- MODULE Diagnosers ----
(***************************************************************************)
(* pkg/diagnoser: Diagnose of the two diagnosers, over what the collectors *)
(* of Collectors have left in their fields and data when they returned,    *)
(* with success or without.                                                *)
(*                                                                         *)
(* A text is a sequence of lines and a line one of words.  strings.Split   *)
(* knows no lines: its tokens are what stands between two spaces, so that  *)
(* the last word of a line and the first of the next are one token, the    *)
(* sequence of the words that newlines join.  A text that ends in a        *)
(* newline has a last line of one empty word.                              *)
(***************************************************************************)
EXTENDS Collectors

CONSTANTS
  ConfFiles,    \* texts that a resolv.conf may have
  Commands,     \* texts that ps may print of kubelet
  MaxPodsArgs,  \* "--max-pods=..." -> the number, for the words of Commands
  PluginArgs    \* "--network-plugin=..." -> the plugin's name

(* Texts have a line, if an empty one, and lines a word; an argument has its value.           *)
ASSUME TextAssumption ==
  /\ \A text \in ConfFiles \cup Commands : text \in Seq(Seq(STRING) \ {<< >>}) /\ text # << >>
  /\ MaxPodsArgs \in [DOMAIN MaxPodsArgs -> Nat] /\ DOMAIN MaxPodsArgs \subseteq STRING
  /\ PluginArgs \in [DOMAIN PluginArgs -> STRING] /\ DOMAIN PluginArgs \subseteq STRING

VARIABLES
  says,    \* item -> its text
  report   \* what the diagnosers have stored

dvars == <<vars, says, report>>

Diagnosed == {"dns", "networkconfig", "networkoutbound"}

----------------------------------------------------------------------------
(* strings *)

Words(line) == [i \in DOMAIN line |-> <<line[i]>>]

(* The first word of the next line belongs to the token that the line before ends with. *)
Joined(tokens, line) == Front(tokens) \o <<Append(Last(tokens), Head(line))>> \o Words(Tail(line))

(* strings.Split(text, " ") *)
Split(text) ==
  LET tokens[n \in 1..Len(text)] == IF n = 1 THEN Words(text[n]) ELSE Joined(tokens[n-1], text[n])
  IN tokens[Len(text)]

(* Slips of the code that the properties below must notice. *)
Untrimmed(token) == token
AnyToken(text) == <<"nameserver">> \in ToSet(Split(text))

(* strings.TrimSuffix(token, "\n") *)
TrimSuffix(token) == IF Len(token) > 1 /\ Last(token) = "" THEN Front(token) ELSE token

NoText == <<<<"">>>>
ErrorText == <<<<"open", "/etc/resolv.conf:", "no", "such", "file", "or", "directory">>>>

(* Arguments begin with "--", and these words do not.  (That a word written here is a string, *)
(* TLA+ knows and the provers do not.)                                                        *)
ASSUME ArgumentAssumption ==
  /\ \A text \in {NoText, ErrorText} :
       ToSet(text[1]) \subseteq STRING \ (DOMAIN MaxPodsArgs \cup DOMAIN PluginArgs)
  /\ "azurecni" \in STRING

(* What a collector has left in a field: nothing if it was not supported or returned an error. *)
Left(key) ==
  IF key \notin DOMAIN data THEN NoText
  ELSE IF data[key] \in failed THEN ErrorText ELSE says[data[key]]

HostConf == Left(<<"virtualmachine">>)
ContainerConf == Left(<<"kubernetes">>)
KubeletCommand == Left(<<"kubeletcmd">>)

----------------------------------------------------------------------------
(* NetworkConfigDiagnoser *)

Nameserver == <<"nameserver">>

(* The tokens after each "nameserver"; the index is out of range at the last token. *)
OutOfRange(text) == Last(Split(text)) = Nameserver
GetDns(text) ==
  LET words == Split(text)
      dns[n \in 0..Len(words)] ==
        IF n = 0 THEN << >>
        ELSE IF words[n] = Nameserver THEN Append(dns[n-1], TrimSuffix(words[n+1])) ELSE dns[n-1]
  IN dns[Len(words)]

(* The last argument of each kind counts.  A token that a newline has joined to more words   *)
(* is no number for Atoi, whose error is ignored; a plugin's name keeps the newline.          *)
LastOf(args, default, Value(_)) ==
  LET parts == Split(KubeletCommand)
      found == {i \in DOMAIN parts : Head(parts[i]) \in DOMAIN args}
  IN IF found = {} THEN default ELSE Value(parts[Max(found)])

Atoi(token) == IF Len(token) = 1 THEN MaxPodsArgs[Head(token)] ELSE 0
MaxPods == LastOf(MaxPodsArgs, 0, Atoi)

Plugin(token) ==
  LET name == <<PluginArgs[Head(token)]>> \o Tail(token)
  IN IF name = <<"cni">> THEN <<"azurecni">> ELSE name
NetworkPlugin == LastOf(PluginArgs, <<"">>, Plugin)

(* NetworkOutboundDiagnoser: each value of its collector is one sample, so that the merging  *)
(* of samples into intervals never has a second one, and each gives one interval.            *)
Outbound ==
  {<<key[1], IF data[key] \in failed THEN "Error" ELSE "Connected">> : key \in DOMAIN data}

NoReport == [VirtualMachineDNS |-> << >>, KubernetesDNS |-> << >>, NetworkPlugin |-> <<"">>,
             MaxPodsPerNode |-> 0, Outbound |-> {}]

Diagnosis ==
  IF kind = "networkoutbound" THEN [NoReport EXCEPT !.Outbound = Outbound]
  ELSE [NoReport EXCEPT !.VirtualMachineDNS = GetDns(HostConf), !.KubernetesDNS = GetDns(ContainerConf),
                        !.NetworkPlugin = NetworkPlugin, !.MaxPodsPerNode = MaxPods]

----------------------------------------------------------------------------

(* The texts of the items that a diagnoser reads. *)
TextOf(item) == IF item[1] = <<"kubelet">> THEN Commands ELSE ConfFiles
Texts ==
  LET items == IF kind = "dns" THEN {Item(s) : s \in ToSet(DNS)}
               ELSE IF kind = "networkconfig" THEN {Item(s) : s \in ToSet(NetworkConfig)} ELSE {}
  IN {f \in [items -> ConfFiles \cup Commands] : \A item \in items : f[item] \in TextOf(item)}

DInit == Init /\ says \in Texts /\ report = NoReport

Diagnose ==
  /\ pc = "returned" /\ kind \in Diagnosed
  /\ ~OutOfRange(HostConf) /\ ~OutOfRange(ContainerConf)
  /\ pc' = "diagnosed" /\ report' = Diagnosis
  /\ UNCHANGED <<kind, collection, started, failures, says>>

(* words[i+1] panics in the diagnoser's goroutine, and ends the process. *)
DiagnosePanics ==
  /\ pc = "returned" /\ kind \in Diagnosed
  /\ OutOfRange(HostConf) \/ OutOfRange(ContainerConf)
  /\ pc' = "crashed" /\ result' = "none"
  /\ UNCHANGED <<kind, todo, data, failed, noted, listed, started, failures, says, report>>

(* The run has gone on to the zip. *)
RunGoesOn == pc = "diagnosed" /\ UNCHANGED dvars

DNext ==
  \/ Next /\ UNCHANGED <<says, report>>
  \/ Diagnose \/ DiagnosePanics \/ RunGoesOn

DSpec ==
  /\ DInit /\ [][DNext]_dvars
  /\ WF_dvars(Collect /\ UNCHANGED <<says, report>>)
  /\ WF_dvars(Restart /\ UNCHANGED <<says, report>>)
  /\ WF_dvars(Diagnose \/ DiagnosePanics)

----------------------------------------------------------------------------
(* Properties *)

Report ==
  [VirtualMachineDNS : Seq(Seq(STRING)), KubernetesDNS : Seq(Seq(STRING)),
   NetworkPlugin : Seq(STRING), MaxPodsPerNode : Nat,
   Outbound : SUBSET ({key[1] : key \in PlannedKeys} \X {"Connected", "Error"})]

(* The type of every variable, those of Collectors included. *)
DiagnosersTypeOK ==
  /\ TypeOK
  /\ says \in Texts
  /\ report \in Report /\ (report # NoReport => pc = "diagnosed")

(* What Kubernetes, ps and the resolver mean by a text: words between white space. *)
Fields(text) == FlattenSeq([i \in DOMAIN text |-> Words(text[i])])

ReadWell(key) == key \in DOMAIN data /\ data[key] \notin failed
Servers == [virtualmachine |-> report.VirtualMachineDNS, kubernetes |-> report.KubernetesDNS]

(* The lines and places of the words of a text that are such arguments. *)
Places(text, args) ==
  UNION {{<<l, i>> : i \in {j \in DOMAIN text[l] : text[l][j] \in DOMAIN args}} : l \in DOMAIN text}

(* Whatever the collectors could not read, a diagnosis holds nothing that its node does not:  *)
(* a file or command that failed contributes nothing, although the text of the error is what  *)
(* the diagnoser parses; a server is a word that stands after "nameserver"; a file of one     *)
(* line gives exactly its server; an argument, given once and with no newline at either side, *)
(* is reported as it was given (networkconfig_diagnoser.go:45-89).                            *)
DiagnosisIsOfTheNode ==
  pc = "diagnosed" =>
    /\ \A file \in DOMAIN Servers :
         IF ~ReadWell(<<file>>) THEN Servers[file] = << >>
         ELSE LET text == says[data[<<file>>]]
                  words == Fields(text)
              IN /\ \A k \in DOMAIN Servers[file] : \E i \in 1..(Len(words) - 1) :
                      words[i] = <<"nameserver">> /\ Head(words[i + 1]) = Head(Servers[file][k])
                 /\ Len(text) = 2 /\ Len(text[1]) = 2 /\ text[1][1] = "nameserver" /\ text[2] = <<"">>
                      => Servers[file] = <<<<text[1][2]>>>>
    /\ ~ReadWell(<<"kubeletcmd">>) => report.MaxPodsPerNode = 0 /\ report.NetworkPlugin = <<"">>
    /\ \A l \in DOMAIN KubeletCommand : \A i \in 2..(Len(KubeletCommand[l]) - 1) :
         /\ Places(KubeletCommand, MaxPodsArgs) = {<<l, i>>}
              => report.MaxPodsPerNode = Atoi(<<KubeletCommand[l][i]>>)
         /\ Places(KubeletCommand, PluginArgs) = {<<l, i>>}
              => report.NetworkPlugin = Plugin(<<KubeletCommand[l][i]>>)

(* A diagnosis is made, and the run goes on to its zip, unless a file that can be read ends in *)
(* the word "nameserver" (networkconfig_diagnoser.go:84).                                      *)
DiagnosisEnds ==
  kind \in Diagnosed
    /\ (\A item \in DOMAIN says : Last(Fields(says[item])) # <<"nameserver">>)
      => <>(pc = "diagnosed")

(* "basic diagnostic signals are generated by analyzing these raw data" (README.md:38): when a *)
(* resolv.conf that was read has a line for a name server, the diagnosis has a server for that *)
(* file, in VirtualMachineDNS or KubernetesDNS (networkconfig_diagnoser.go:17-18, 78-89).      *)
DnsSignalsAreGenerated ==
  pc = "diagnosed" /\ kind \in {"dns", "networkconfig"} =>
    \A file \in DOMAIN Servers :
      ReadWell(<<file>>) /\ (\E line \in ToSet(says[data[<<file>>]]) : Head(line) = "nameserver")
        => Servers[file] # << >>
====
