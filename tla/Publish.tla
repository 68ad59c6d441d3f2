-------------------------------- MODULE Publish --------------------------------
(***************************************************************************)
(* scripts/ingest-report-utils.mjs: what a publisher uploads, from the     *)
(* directory of a report and the environment of a GitHub job; what a       *)
(* script posts itself (scripts/seed-performance-fixtures.mjs); and        *)
(* scripts/regenerate-stored-reports.mjs: what it uploads of a stored run. *)
(*                                                                         *)
(* env: the variables of the job, None where there is none, with the event *)
(* file that GITHUB_EVENT_PATH names (None: none, or no JSON).  options:   *)
(* what the command line gives.                                            *)
(***************************************************************************)
EXTENDS Normalize

NoEvent == [fullName |-> None, htmlUrl |-> None, defaultBranch |-> None, head |-> None, releaseTag |-> None]

(* What a source says; environment are the variables of its job, if any.    *)
SourceFields ==
    {"provider", "runId", "repository", "projectName", "isPublic", "repositoryUrl", "defaultBranch", "branch",
     "tag", "semanticVersion", "commitSha", "actor", "startedAt", "completedAt", "buildNumber", "environment",
     "versionKey", "workflow", "job"}

readGitHubEvent(env) == OrElse(env.event, NoEvent)

(* A pull request is built on a merge commit: its branch is that of its head. *)
resolveBranch(env, event) ==
    OrElse(OrElse(env.headRef, event.head), IF env.refType = "branch" THEN env.refName ELSE None)

resolveTag(env, event) ==
    OrElse(IF env.refType = "tag" THEN env.refName ELSE None, event.releaseTag)

NoEnvironment == [runNumber |-> None, repository |-> None, actor |-> None]

captureGitHubDefaultEnvironment(env) ==
    LET captured == [name \in DOMAIN NoEnvironment |-> env[name]] IN
    IF captured = NoEnvironment THEN None ELSE captured

(* versions: the tags that are a semantic version, with that version.       *)
buildGitHubSourceContext(options, env, versions) ==
    LET event == readGitHubEvent(env)
        tag == resolveTag(env, event)
        repository == OrElse(event.fullName, env.repository)
    IN [provider |-> "github-actions",
        runId |-> OrElse(options.sourceRunId, OrElse(env.sourceRunId, env.runId)),
        repository |-> repository, projectName |-> None, isPublic |-> FALSE,
        repositoryUrl |-> IF event.htmlUrl # None THEN event.htmlUrl
                          ELSE IF repository = None THEN None ELSE <<"server", repository>>,
        defaultBranch |-> event.defaultBranch,
        branch |-> resolveBranch(env, event), tag |-> tag,
        semanticVersion |-> IF tag \in DOMAIN versions THEN versions[tag] ELSE None,
        commitSha |-> env.sha, actor |-> env.actor,
        startedAt |-> OrElse(OrElse(options.buildStartedAt, env.buildStartedAt), "now"),
        completedAt |-> OrElse(OrElse(options.buildCompletedAt, env.buildCompletedAt), "now"),
        buildNumber |-> env.runNumber,
        environment |-> captureGitHubDefaultEnvironment(env),
        versionKey |-> IF tag = None THEN None ELSE <<"tag", tag>>,
        workflow |-> env.workflow, job |-> env.job]

normalizeSubmissionOptions(submission) ==
    OrElse(submission, [kind |-> None, producerKey |-> None, submissionKey |-> None])

(* Where a file of the report is kept, if storage is configured. *)
createArtifactLocator(relativePath, storage) ==
    LET objectPath == storage.prefix \o normalizeRelativeArtifactPath(relativePath) IN
    [storageKey |-> IF storage.bucket = None THEN None ELSE <<storage.bucket>> \o objectPath,
     sourceUrl |-> IF storage.baseUrl = None THEN None ELSE <<storage.baseUrl>> \o objectPath]

(* Every file of the directory, by its path in it; in the order in which    *)
(* they were written first, where the code has that of their names.         *)
collectOutputArtifacts(written, storage) ==
    LET paths == Dedupe([i \in DOMAIN written |-> written[i].path]) IN
    [i \in DOMAIN paths |->
        [relativePath |-> paths[i], href |-> paths[i],
         sourceUrl |-> createArtifactLocator(paths[i], storage).sourceUrl]]

(* The raw files of suites are found below raw. *)
attachArtifactLocations(report, storage) ==
    LET Located(artifact) ==
            artifact @@ createArtifactLocator(<<"raw">> \o artifact.relativePath, storage)
        OfSuite(suite) == [suite EXCEPT !.rawArtifacts = [i \in DOMAIN @ |-> Located(@[i])]]
        OfPackage(package) == [package EXCEPT !.suites = [i \in DOMAIN @ |-> OfSuite(@[i])]]
    IN [report EXCEPT !.packages = [i \in DOMAIN @ |-> OfPackage(@[i])]]

createIngestPayload(options, env, versions, report, written) ==
    [projectKey |-> options.projectKey,
     report |-> attachArtifactLocations(report, options.storage),
     source |-> buildGitHubSourceContext(options, env, versions),
     artifacts |-> collectOutputArtifacts(written, options.storage),
     submission |-> normalizeSubmissionOptions(options.submission)]

(* A script has a source of its own, and no files.  The report that it      *)
(* generates (a fixture) names no project and no job.                       *)
postReport(post, report) ==
    [projectKey |-> post.projectKey,
     report |-> IF post.fixture THEN [report EXCEPT !.meta = [projectName |-> None, environment |-> None]]
                ELSE report,
     source |-> post.source, artifacts |-> <<>>,
     submission |-> normalizeSubmissionOptions(post.submission)]

-----------------------------------------------------------------------------
(* Replays                                                                  *)

hasReplayableRawReport(run) == run.rawReport # None

(* Faulty variant: those of suites and tests are uploaded with them. *)
buildEveryArtifactReplayPayload(artifacts) ==
    [i \in DOMAIN artifacts |->
        [relativePath |-> artifacts[i].relativePath, href |-> artifacts[i].href,
         sourceUrl |-> artifacts[i].sourceUrl]]

(* A row of the run itself, not one of a suite or test. *)
buildRunArtifactReplayPayloads(artifacts) ==
    LET own == Where(artifacts, LAMBDA a : a.scope = "run") IN
    [i \in DOMAIN own |->
        [relativePath |-> own[i].relativePath, href |-> own[i].href, sourceUrl |-> own[i].sourceUrl]]

deriveRepositoryUrlFromEnvironment(environment) ==
    IF environment.repository = None THEN None ELSE <<"server", environment.repository>>

(* The source that the run keeps, and what that lacks from the rows of its  *)
(* project and version, its report and the job of that; nothing of the      *)
(* submission that it came with, nor whether the project is public.         *)
buildReplayPayload(project, versionBuild, source, rawReport, artifacts) ==
    LET kept == OrElse(source.environment, rawReport.meta.environment)
        environment == OrElse(kept, NoEnvironment)
    IN [projectKey |-> project.key, report |-> rawReport,
        source |-> [source EXCEPT
            !.actor = OrElse(@, environment.actor),
            !.repository = OrElse(@, environment.repository),
            !.repositoryUrl = OrElse(OrElse(@, project.repositoryUrl), deriveRepositoryUrlFromEnvironment(environment)),
            !.defaultBranch = OrElse(@, project.defaultBranch),
            !.projectName = OrElse(@, project.name),
            !.startedAt = OrElse(@, rawReport.generatedAt),
            !.completedAt = OrElse(@, rawReport.generatedAt),
            !.buildNumber = OrElse(OrElse(@, versionBuild), environment.runNumber),
            !.environment = kept,
            !.isPublic = FALSE],
        artifacts |-> buildRunArtifactReplayPayloads(artifacts),
        submission |-> normalizeSubmissionOptions(None)]
===============================================================================
