------------------------------- MODULE Commands -------------------------------
(***************************************************************************)
(* How the adapters change the command of a suite before they run it, so   *)
(* that its runner reports to them.                                        *)
(*                                                                         *)
(* A command is a sequence of tokens; that of a suite may be a string,     *)
(* whose quotes the adapters take apart (tokenizeCommand, left out).  An   *)
(* option that holds its value, as in "--outputFile=x", is written         *)
(* "--outputFile=" here, whatever the value.                               *)
(***************************************************************************)
EXTENDS Coverage, TLC

CONSTANT Assignments   \* the tokens like NODE_ENV=test: <<name, value>>

Thrown == [error |-> "thrown"]

Reporter == "--test-reporter=station"   \* the reporter of the adapter itself
CoverageFlag == "--experimental-test-coverage"
Options == {"--", "--test", "--watch", "--json", "--coverage", "--outputFile", "--outputFile=",
            "--reporter", "--reporter=", "--test-reporter", "--test-reporter=", CoverageFlag}
ShellControl == {"&&", "||", ";", "|", ">", ">>", "<", "2>", "2>>", "2>&1"}

(* Drops the tokens in alone, and those in withValue with what follows.     *)
StripArgs(args, withValue, alone) ==
    LET Take(s, token) ==
            IF s.skip THEN [s EXCEPT !.skip = FALSE]
            ELSE IF token \in withValue THEN [s EXCEPT !.skip = TRUE]
            ELSE IF token \in alone THEN s
            ELSE [s EXCEPT !.kept = Append(@, token)]
    IN FoldLeft(Take, [kept |-> <<>>, skip |-> FALSE], args).kept

stripJestManagedArgs(args) ==
    StripArgs(args, {"--coverageReporters", "--coverageDirectory", "--outputFile"},
              {"--json", "--coverage", "--outputFile=", "--coverageReporters=", "--coverageDirectory="})

stripVitestManagedArgs(args) ==
    StripArgs(args, {"--reporter", "--outputFile", "--coverage.provider", "--coverage.reporter",
                     "--coverage.reportsDirectory"},
              {"--coverage", "--coverage=", "--coverage.reportOnFailure", "--reporter=", "--outputFile="})

appendPlaywrightJsonArgs(args) == Append(StripArgs(args, {"--reporter"}, {"--reporter="}), "--reporter=json")

appendJestJsonArgs(args) == stripJestManagedArgs(args) \o <<"--json", "--outputFile=station">>

appendVitestJsonArgs(args) == stripVitestManagedArgs(args) \o <<"--reporter=json", "--outputFile=station">>

-----------------------------------------------------------------------------
(* node:test: the command is node --test itself, or a script of the         *)
(* closest package.json that comes to it.                                   *)

isDirectNodeTestCommand(command) == Head(command) = "node" /\ Contains(Tail(command), "--test")

EnvOf(tokens) ==
    FoldLeft(LAMBDA env, token : (Assignments[token][1] :> Assignments[token][2]) @@ env, << >>, tokens)

(* A command of nothing but assignments stays as it is. *)
extractLeadingEnvAssignments(command) ==
    LET plain == {i \in DOMAIN command : command[i] \notin DOMAIN Assignments}
        first == IF plain = {} THEN Len(command) + 1 ELSE Min(plain)
    IN [command |-> IF plain = {} THEN command ELSE SubSeq(command, first, Len(command)),
        env |-> EnvOf(SubSeq(command, 1, first - 1))]

normalizeForwardedArgs(args) == IF args # <<>> /\ Head(args) = "--" THEN Tail(args) ELSE args

(* yarn name, yarn run name, npm run name, pnpm run name *)
parsePackageScriptInvocation(command) ==
    LET args == Tail(command)
        at == IF args # <<>> /\ Head(args) = "run" THEN 2 ELSE 1
    IN IF /\ Head(command) \in {"yarn", "npm", "pnpm"}
          /\ at = 2 \/ Head(command) = "yarn"
          /\ at <= Len(args)
          /\ args[at] \notin Options
       THEN [script |-> args[at], forwarded |-> normalizeForwardedArgs(SubSeq(args, at + 1, Len(args)))]
       ELSE None

(* scripts: the scripts of package.json.  A cycle of scripts ends at the    *)
(* script it returns to.                                                    *)
resolvePackageScriptNodeTestCommand(scripts, command) ==
    LET resolve[c \in Seq(STRING), seen \in SUBSET DOMAIN scripts] ==
            LET invocation == parsePackageScriptInvocation(c)
                script == extractLeadingEnvAssignments(scripts[invocation.script])
                called == script.command \o invocation.forwarded
                nested == resolve[called, seen \union {invocation.script}]
            IN IF \/ invocation = None
                  \/ invocation.script \notin DOMAIN scripts \ seen
                  \/ ToSet(scripts[invocation.script]) \intersect ShellControl # {}
               THEN None
               ELSE IF isDirectNodeTestCommand(called) THEN [command |-> called, env |-> script.env]
               ELSE IF nested = None THEN None
               ELSE [nested EXCEPT !.env = @ @@ script.env]
    IN resolve[command, {}]

resolveNodeTestCommand(scripts, command) ==
    LET own == extractLeadingEnvAssignments(command)
        script == resolvePackageScriptNodeTestCommand(scripts, own.command)
    IN IF isDirectNodeTestCommand(own.command) THEN own @@ [direct |-> TRUE]
       ELSE IF script = None THEN own @@ [direct |-> FALSE]
       ELSE [command |-> script.command, env |-> script.env @@ own.env, direct |-> TRUE]

(* The reporter goes behind --test, which may have been the value of one    *)
(* of the options that are dropped: None, and the adapter throws.           *)
withReporterArgs(args, enableCoverage) ==
    LET kept == StripArgs(args, {"--test-reporter", "--test-reporter-destination"},
                          {CoverageFlag, "--test-reporter=", "--test-reporter-destination="})
        at == SelectInSeq(kept, LAMBDA token : token = "--test")
    IN IF at = 0 THEN None
       ELSE SubSeq(kept, 1, at) \o (IF enableCoverage THEN <<CoverageFlag>> ELSE <<>>) \o <<Reporter>>
                \o SubSeq(kept, at + 1, Len(kept))

(* What is run: a command that is not direct finds the reporter in the      *)
(* environment.                                                             *)
executeNodeTestRun(suiteEnv, resolved, enableCoverage) ==
    LET env == resolved.env @@ suiteEnv
        args == withReporterArgs(Tail(resolved.command), enableCoverage)
    IN IF ~isDirectNodeTestCommand(resolved.command)
       THEN [command |-> resolved.command, env |-> ("NODE_OPTIONS" :> Reporter) @@ env]
       ELSE IF args = None THEN Thrown
       ELSE [command |-> <<Head(resolved.command)>> \o args, env |-> env]
===============================================================================
