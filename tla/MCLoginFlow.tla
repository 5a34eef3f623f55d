---------------------------- MODULE MCLoginFlow ----------------------------
(***************************************************************************)
(* Instances of LoginFlow for TLC: a few challenges of each kind, open in  *)
(* the tabs of one browser.                                                *)
(***************************************************************************)
EXTENDS LoginFlow, TLC

CONSTANTS t1, t2

\* Two sign-ins, a consent request for all scopes and one without any that
\* skips, a sign-out.
MCKind == "l1" :> "login" @@ "l2" :> "login"
          @@ "c1" :> "consent" @@ "cskip" :> "consent" @@ "o1" :> "logout"

KindOf(cs) == [c \in cs |-> MCKind[c]]
RequestedOf(cs) == [c \in cs |-> IF c = "c1" THEN Scopes ELSE Absent]

PageChallenges == {"l1", "c1", "cskip", "o1"}
PageKind == KindOf(PageChallenges)
PageRequested == RequestedOf(PageChallenges)

AzureChallenges == {"l1", "l2"}
AzureKind == KindOf(AzureChallenges)
AzureRequested == RequestedOf(AzureChallenges)

TabSymmetry == Permutations(Tabs)
=============================================================================
