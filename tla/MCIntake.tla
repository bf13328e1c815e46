------------------------------- MODULE MCIntake -------------------------------
(* Instances of Intake for TLC: two providers with their public hosts, and *)
(* a self-hosted one whose URLs the guess takes for GitHub.                *)
EXTENDS Intake, TLC

TwoProviders  == {"github", "gitlab"}
OneProvider   == {"github"}
ThreeHosts    == {"github.com", "gitlab.com", "git.acme.com"}
TwoHosts      == {"github.com", "git.acme.com"}
Clouds        == ("github" :> "github.com") @@ ("gitlab" :> "gitlab.com")
SelfHosted    == {"git.acme.com"}
GithubOnly    == "github" :> "github.com"
Guess         == [h \in ThreeHosts |-> IF h = "gitlab.com" THEN "gitlab" ELSE "github"]
GuessGithub   == [h \in TwoHosts |-> "github"]
Defaults      == ("github" :> "default-github") @@ ("gitlab" :> "default-gitlab")
GithubDefault == "github" :> "default-github"
================================================================================
