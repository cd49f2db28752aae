CONSTANTS
    Manifests <- RepickManifests
    PathManifest <- SplitPath
    GitManifest <- MCGitManifest
    Published <- SecondPublished
    Uploads <- SecondUploads
    Regs = {1}
    MaxCmds = 2
    MaxEnv = 0
SPECIFICATION Spec
INVARIANT RepicksPinned
CHECK_DEADLOCK FALSE
