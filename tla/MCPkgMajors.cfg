CONSTANTS
    Manifests <- SplitManifests
    PathManifest <- SplitPath
    GitManifest <- MCGitManifest
    Published <- SecondPublished
    Uploads <- SecondUploads
    Regs = {1}
    MaxCmds = 2
    MaxEnv = 1
SPECIFICATION Spec
INVARIANT MajorsPinned
CHECK_DEADLOCK FALSE
